---------------------------- MODULE Spec2Model ----------------------------
(***************************************************************************)
(* NEET study tracker (Flask + SQLAlchemy): the database tables, the login *)
(* sessions and the request handlers of src/app.py as a state machine,     *)
(* plus the two pieces of domain logic the specification singles out:      *)
(* ChapterProgress.update_completion_status and calculate_study_streak.    *)
(*                                                                         *)
(* The specifications share the variables:                                 *)
(*   Spec            the application, from the state app.py builds on      *)
(*                   start-up (one bootstrap admin, empty tables);         *)
(*   SpecAccounts    the same with the password handlers, without the      *)
(*                   syllabus handlers;                                    *)
(*   SpecPomodoro    the accounts, pomodoro_complete and the next day;     *)
(*   SpecStreak      calculate_study_streak run on a bounded family of     *)
(*                   study logs, one loop iteration per step               *)
(*                   (SpecStreakFair: the same, run to its end);           *)
(*   SpecStreakDup   two calls of calculate_study_streak with sessions     *)
(*                   logged in between on days that already have one;      *)
(*   SpecCompletion  update_completion_status applied to every chapter     *)
(*                   record of a bounded family;                           *)
(*   SpecInterleaved update_chapter and log_revision split into the load   *)
(*                   of the record and the commit (SpecSerial: the same,   *)
(*                   one request at a time);                               *)
(*   SpecRecords     the accounts and the handlers that insert study       *)
(*                   records of every kind;                                *)
(*   SpecProgress    get_progress_percentage and get_subject_progress on   *)
(*                   a bounded family of chapter tables;                   *)
(*   SpecRevisions   update_chapter and log_revision requests of an        *)
(*                   approved user;                                        *)
(*   SpecPomodoroInterleaved                                               *)
(*                   pomodoro_complete split into its query and its        *)
(*                   commit.                                               *)
(*                                                                         *)
(* Modelling decisions that are not visible in a single definition:        *)
(*  - every handler is one atomic step (one request, one commit), except   *)
(*    in SpecInterleaved and SpecPomodoroInterleaved;                      *)
(*  - primary keys are allocated as SQLite does for INTEGER PRIMARY KEY    *)
(*    (largest id in the table plus one), the database of the default      *)
(*    SQLALCHEMY_DATABASE_URI; foreign keys are not enforced there;        *)
(*  - a request that ends in an unhandled exception is rolled back and     *)
(*    answered 500 (internal_error, app.py 1325-1328);                     *)
(*  - datetime.utcnow() is the variable now, which advances by one with    *)
(*    every request that changes a table or a cookie; dates are day        *)
(*    numbers;                                                             *)
(*  - a request that changes no table and no cookie is a stuttering step;  *)
(*    the status code it is answered with is an operator of the state and  *)
(*    the request (UpdateChapterStatus, LogRevisionStatus);                *)
(*  - columns no handler reads (created_at, updated_at, notes, ...) are    *)
(*    left out of the rows;                                                *)
(*  - flag values in request bodies are JSON booleans.                     *)
(***************************************************************************)
EXTENDS Integers, Sequences, FiniteSets, TLC

VARIABLES
    users,              \* table users: id -> row
    sessions,           \* user ids held by live login cookies
    chapters,           \* table chapter_progress: id -> row
    revision_logs,      \* table revision_logs, in insertion order
    study_logs,         \* table study_logs: set of rows (id is the key)
    admin_logs,         \* table admin_logs, in insertion order
    syllabus_chapters,  \* table of SyllabusChapter rows: id -> row
    pomodoro_sessions,  \* table pomodoro_sessions: set of rows (id is the key)
    test_scores,        \* table test_scores: set of rows (id is the key)
    inflight,           \* requests between their read of a record and their commit
    now,                \* datetime.utcnow()
    today,              \* date.today() seen by calculate_study_streak
    streak_user,        \* calculate_study_streak: argument user_id
    streak,             \* calculate_study_streak: local streak
    check_date,         \* calculate_study_streak: local check_date
    queries,            \* calculate_study_streak: StudyLog queries issued so far
    returned,           \* the values the function under study has returned, in order
    pc                  \* position of the function run by SpecStreak / SpecCompletion

appVars == <<users, sessions, chapters, revision_logs, study_logs, admin_logs,
             syllabus_chapters, pomodoro_sessions, test_scores, inflight, now>>
streakVars == <<today, streak_user, streak, check_date, queries, returned>>
vars == <<users, sessions, chapters, revision_logs, study_logs, admin_logs,
          syllabus_chapters, pomodoro_sessions, test_scores, inflight, now, today,
          streak_user, streak, check_date, queries, returned, pc>>

\* NULL in a DateTime column.
NoDate == -1

Restrict(f, S) == [x \in S |-> f[x]]

Max(S) == CHOOSE x \in S : \A y \in S : y <= x

\* SQLite rowid allocation for an INTEGER PRIMARY KEY column.
NextId(ids) == IF ids = {} THEN 1 ELSE Max(ids) + 1

(***************************************************************************)
(* Bounds of the model.                                                    *)
(***************************************************************************)
SmallSpan == 4      \* SpecStreak: every subset of the last SmallSpan days is a study log
LongRun == 401      \* SpecStreak: longest unbroken run of study days (today .. today-400)
OtherRun == 2       \* SpecStreak: days logged by another user, ending today
TodayBase == 1000   \* SpecStreak: smallest day number taken for today

(***************************************************************************)
(* Program constants.                                                      *)
(***************************************************************************)
STREAK_LIMIT == 365             \* app.py 121: if streak > 365: break


(***************************************************************************)
(* ChapterProgress and update_completion_status (models.py 71-105).        *)
(***************************************************************************)
FlagNames == {"ncert_read", "lecture_watched", "questions_solved", "revised"}

\* A chapter_progress row with the column defaults of models.py 81-91.
ChapterRow(uid, subject, name, order) ==
    [user_id |-> uid, subject |-> subject, chapter_name |-> name, chapter_order |-> order,
     ncert_read |-> FALSE, lecture_watched |-> FALSE, questions_solved |-> FALSE,
     revised |-> FALSE, is_completed |-> FALSE, revision_count |-> 0,
     last_revised_date |-> NoDate]

\* Mutant: any() in place of all().
PyAny(list) == \E i \in 1 .. Len(list) : list[i]

\* Python's all() over a list of booleans.
PyAll(list) == \A i \in 1 .. Len(list) : list[i]

\* Mutant: the status is left as it was (the call is forgotten).
keep_completion_status(row) == row

\* Mutant: the status is derived from the stored status, not from the flags.
flip_completion_status(row) == [row EXCEPT !.is_completed = ~row.is_completed]

\* ChapterProgress.update_completion_status
update_completion_status(row) ==
    [row EXCEPT !.is_completed =
        PyAll(<<row.ncert_read, row.lecture_watched, row.questions_solved, row.revised>>)]

(***************************************************************************)
(* calculate_study_streak (app.py 108-124).                                *)
(***************************************************************************)

\* A study_logs row.  Only the columns the handlers read or write are kept.
StudyLogRow(id, uid, d, minutes) ==
    [id |-> id, user_id |-> uid, date |-> d, duration_minutes |-> minutes]

\* Mutant: the query matches any log up to the day, not the day itself.
HasStudyLogUpTo(uid, d) ==
    \E l \in study_logs : l.user_id = uid /\ l.date <= d

\* Mutant: the day counts only when it has exactly one session.
HasStudyLogOnce(uid, d) ==
    Cardinality({l \in study_logs : l.user_id = uid /\ l.date = d}) = 1

\* StudyLog.query.filter_by(user_id=user_id, date=check_date).first() is not None
HasStudyLog(uid, d) ==
    \E l \in study_logs : l.user_id = uid /\ l.date = d

\* Mutant: the walk steps two days back.
PreviousDayTwice(d) == d - 2

\* check_date -= timedelta(days=1)
PreviousDay(d) == d - 1

\* One iteration of the while loop: the query, then either the increment and
\* the step back followed by the bound test, or the break.
StreakIteration ==
    /\ pc = "loop"
    /\ queries' = queries + 1
    /\ IF HasStudyLog(streak_user, check_date)
       THEN /\ streak' = streak + 1
            /\ check_date' = PreviousDay(check_date)
            /\ pc' = IF streak' > STREAK_LIMIT THEN "return" ELSE "loop"
       ELSE /\ pc' = "return"
            /\ UNCHANGED <<streak, check_date>>
    /\ UNCHANGED <<today, streak_user, returned>>
    /\ UNCHANGED appVars

\* return streak
StreakReturn ==
    /\ pc = "return"
    /\ pc' = "done"
    /\ returned' = Append(returned, streak)
    /\ UNCHANGED <<today, streak_user, streak, check_date, queries>>
    /\ UNCHANGED appVars

\* The study logs of SpecStreak, as day offsets back from today: every subset
\* of the last SmallSpan days, and unbroken runs of STREAK_LIMIT-1 .. LongRun
\* days, alone or followed, after one absent day, by two older days.
SmallOffsets == SUBSET (0 .. SmallSpan - 1)
RunLengths == {STREAK_LIMIT - 1, STREAK_LIMIT, STREAK_LIMIT + 1, STREAK_LIMIT + 2, LongRun}
LongOffsets ==
    {0 .. n - 1 : n \in RunLengths} \cup {(0 .. n - 1) \cup {n + 1, n + 2} : n \in RunLengths}
StreakOffsets == SmallOffsets \cup LongOffsets

StreakUser == 2
OtherUser == StreakUser + 1

\* The table holding user StreakUser's sessions on the days t - o, o \in offs,
\* and OtherUser's sessions on the last k days.
StreakTable(t, offs, k) ==
    {StudyLogRow(o + 1, StreakUser, t - o, 30) : o \in offs}
        \cup {StudyLogRow(LongRun + 10 + o, OtherUser, t - o, 45) : o \in 0 .. k - 1}

InitStreak ==
    /\ today \in {TodayBase, TodayBase + 1}
    /\ \E offs \in StreakOffsets, k \in {0, OtherRun} :
            study_logs = StreakTable(today, offs, k)
    /\ streak_user = StreakUser
    /\ streak = 0
    /\ check_date = today
    /\ queries = 0
    /\ returned = <<>>
    /\ pc = "loop"
    /\ users = <<>>
    /\ sessions = {}
    /\ chapters = <<>>
    /\ revision_logs = <<>>
    /\ admin_logs = <<>>
    /\ syllabus_chapters = <<>>
    /\ pomodoro_sessions = {}
    /\ test_scores = {}
    /\ inflight = <<>>
    /\ now = 0

NextStreak == StreakIteration \/ StreakReturn

SpecStreak == InitStreak /\ [][NextStreak]_vars

\* The scheduler runs the function to its end: a started call is not abandoned.
SpecStreakFair == SpecStreak /\ WF_vars(NextStreak)

\* The dates on which the user has at least one session.
StudyDates(uid) == {l.date : l \in {x \in study_logs : x.user_id = uid}}

\* The number of consecutive days ending at t that are all in D.
RunEndingAt(D, t) ==
    CHOOSE k \in 0 .. Cardinality(D) :
        /\ \A i \in 0 .. k - 1 : (t - i) \in D
        /\ (t - k) \notin D

\* C2: a run of more than 365 consecutive days ending today gives exactly 365,
\* and the streak never exceeds 365.
C2_StreakCappedAt365 ==
    /\ streak <= STREAK_LIMIT
    /\ (pc = "done" /\ RunEndingAt(StudyDates(streak_user), today) > STREAK_LIMIT)
            => streak = STREAK_LIMIT

\* C3: for runs within the bound the returned streak is the largest k with
\* today, today-1, ..., today-(k-1) all among the user's study dates.
C3_StreakIsRunLength ==
    pc = "done" =>
        LET k == RunEndingAt(StudyDates(streak_user), today)
        IN  k <= STREAK_LIMIT => streak = k

\* C3 witness: {today, today-1, today-2} gives 3, and a log with an older day
\* beyond the first absent day gives the run before the gap.
C3_Witness ==
    /\ pc = "done"
    /\ streak = 3
    /\ StudyDates(streak_user) = {today, today - 1, today - 2}

\* C4: whenever today is not among the user's study dates the streak is 0.
C4_NoSessionTodayGivesZero ==
    (pc = "done" /\ today \notin StudyDates(streak_user)) => streak = 0

\* C4 witness: the log {today-1} has returned 0.
C4_Witness ==
    /\ pc = "done"
    /\ StudyDates(streak_user) = {today - 1}
    /\ streak = 0

\* C5: the walk examines at most 365 days.
C5_ExaminesAtMost365Days == queries <= STREAK_LIMIT

\* The walk terminates (checked under SpecStreakFair).
StreakTerminates == <>(pc = "done")

(***************************************************************************)
(* update_completion_status on its own (models.py 95-102).                 *)
(***************************************************************************)
MaxRevisions == 2   \* SpecCompletion: largest revision_count of a record of the family

\* The chapter records of SpecCompletion: every combination of the four flags,
\* with either stored is_completed (a record is built with FALSE and may hold
\* a value computed from older flags) and every revision_count.
CompletionRows ==
    {[ChapterRow(StreakUser, "Physics", "Vectors", 1)
        EXCEPT !.ncert_read = f[1], !.lecture_watched = f[2], !.questions_solved = f[3],
               !.revised = f[4], !.is_completed = done, !.revision_count = n] :
        f \in [1 .. 4 -> BOOLEAN], done \in BOOLEAN, n \in 0 .. MaxRevisions}

InitCompletion ==
    /\ chapters \in {(1 :> row) : row \in CompletionRows}
    /\ pc = "start"
    /\ users = <<>>
    /\ sessions = {}
    /\ revision_logs = <<>>
    /\ study_logs = {}
    /\ admin_logs = <<>>
    /\ syllabus_chapters = <<>>
    /\ pomodoro_sessions = {}
    /\ test_scores = {}
    /\ inflight = <<>>
    /\ now = 0
    /\ today = TodayBase
    /\ streak_user = StreakUser
    /\ streak = 0
    /\ check_date = TodayBase
    /\ queries = 0
    /\ returned = <<>>

\* chapter.update_completion_status(), called once and then once more.
ApplyCompletion ==
    /\ pc \in {"start", "once"}
    /\ chapters' = [id \in DOMAIN chapters |-> update_completion_status(chapters[id])]
    /\ pc' = IF pc = "start" THEN "once" ELSE "twice"
    /\ UNCHANGED <<users, sessions, revision_logs, study_logs, admin_logs,
                   syllabus_chapters, pomodoro_sessions, test_scores, inflight, now>>
    /\ UNCHANGED streakVars

NextCompletion == ApplyCompletion

SpecCompletion == InitCompletion /\ [][NextCompletion]_vars

\* The four flags of a record are all true.
AllFlags(row) ==
    row.ncert_read /\ row.lecture_watched /\ row.questions_solved /\ row.revised

\* C6: for each of the 16 combinations of the four flags the evaluation gives
\* true exactly when all four are true, and it can be applied to every
\* combination (no combination raises).
C6_CompletionTruthTable ==
    /\ pc = "start" => ENABLED ApplyCompletion
    /\ pc # "start" =>
            \A id \in DOMAIN chapters :
                /\ chapters[id].is_completed \in BOOLEAN
                /\ chapters[id].is_completed <=> AllFlags(chapters[id])

\* C6 witness: a record with three flags set has been evaluated to FALSE and
\* kept its flags.
C6_Witness ==
    /\ pc = "once"
    /\ \E id \in DOMAIN chapters :
            /\ chapters[id].ncert_read /\ chapters[id].lecture_watched
            /\ chapters[id].questions_solved /\ ~chapters[id].revised
            /\ ~chapters[id].is_completed

\* C16: the evaluation is idempotent and pure: a second application in a row
\* leaves the record as the first left it, and no application changes a field
\* other than is_completed.
C16_CompletionIdempotentPure ==
    [][ApplyCompletion =>
            /\ DOMAIN chapters' = DOMAIN chapters
            /\ \A id \in DOMAIN chapters :
                    chapters'[id] =
                        [chapters[id] EXCEPT !.is_completed = chapters'[id].is_completed]
            /\ pc = "once" => chapters' = chapters]_vars

\* C16 witness: a record stored as not completed with its four flags set has
\* been evaluated twice.
C16_Witness ==
    /\ pc = "twice"
    /\ \E id \in DOMAIN chapters :
            /\ AllFlags(chapters[id])
            /\ chapters[id].is_completed
            /\ chapters[id].revision_count = 1

(***************************************************************************)
(* The application: tables, sessions and request handlers (app.py).        *)
(***************************************************************************)
MaxTime == 6        \* number of requests of a behaviour that change a table or a cookie
MaxStudyLogs == 2   \* rows of study_logs

\* The user names a registration or login form can carry.
Usernames == {"admin", "asha", "ravi"}

\* Config.ADMIN_USERNAME (app.py 16)
ADMIN_USERNAME == "admin"

\* The static syllabus (syllabus_data.py), cut to two subjects with one
\* chapter each; the order of the subjects is the dict's insertion order.
SyllabusSubjects == <<"Physics", "Chemistry">>
NEET_SYLLABUS ==
    [Physics |-> <<"Vectors">>, Chemistry |-> <<"Redox Reactions">>]

\* The dates and the duration a study-log form can carry.
StudyFormDates == {TodayBase, TodayBase - 1}
StudyFormMinutes == {30}

\* A browser without a login cookie.
Anonymous == 0

\* The ids a URL can name: the rows of the table and one id past them.
UrlIds(table) == DOMAIN table \cup {NextId(DOMAIN table)}

\* A users row (models.py 18-26): the columns the handlers below read or write.
\* password stands for password_hash: which request set it last.
\* must_change_password is the column the password handlers use
\* (app.py 1357: BOOLEAN DEFAULT FALSE).
UserRow(name, active, admin) ==
    [username |-> name, is_active |-> active, is_admin |-> admin,
     password |-> "initial", must_change_password |-> FALSE]

\* flask_login: the user a request runs as.  load_user (app.py 57-60) fetches
\* the row named by the cookie; UserMixin.is_authenticated is the row's
\* is_active, so a deleted or inactive row is an anonymous request.
CurrentUser(client) ==
    IF client \in sessions /\ client \in DOMAIN users /\ users[client].is_active
    THEN client
    ELSE Anonymous

IsAuthenticated(client) == CurrentUser(client) # Anonymous

\* flask_login.login_user: refuses a row whose is_active is false.
LoggedIn(client, uid) ==
    IF users[uid].is_active THEN (sessions \ {client}) \cup {uid} ELSE sessions

\* User.query.filter_by(username=...).first()
UserByName(name) ==
    IF \E u \in DOMAIN users : users[u].username = name
    THEN CHOOSE u \in DOMAIN users : users[u].username = name
    ELSE Anonymous

dbVars == <<users, chapters, revision_logs, study_logs, admin_logs, syllabus_chapters,
            pomodoro_sessions, test_scores>>

\* A request that is answered without a change to a table or a cookie (a
\* redirect, a re-rendered form, an error page after the rollback).
Refused == UNCHANGED vars

\* A request that changes a table or a cookie: the clock has moved on by the
\* time of the next one.
Commit ==
    /\ now < MaxTime
    /\ now' = now + 1
    /\ UNCHANGED <<today, streak_user, streak, check_date, queries, returned, pc>>
    /\ UNCHANGED inflight

\* Start-up (app.py 73-89): the tables are created and the admin is inserted.
Init ==
    /\ users = (1 :> UserRow(ADMIN_USERNAME, TRUE, TRUE))
    /\ sessions = {}
    /\ chapters = <<>>
    /\ revision_logs = <<>>
    /\ study_logs = {}
    /\ admin_logs = <<>>
    /\ syllabus_chapters = <<>>
    /\ pomodoro_sessions = {}
    /\ test_scores = {}
    /\ inflight = <<>>
    /\ now = 0
    /\ today = TodayBase
    /\ streak_user = Anonymous
    /\ streak = 0
    /\ check_date = TodayBase
    /\ queries = 0
    /\ returned = <<>>
    /\ pc = "app"

\* The (subject, chapter_name, chapter_order) triples in the order
\* initialize_user_chapters visits them: enumerate(chapters, 1) per subject.
RECURSIVE SyllabusEntries(_)
SyllabusEntries(i) ==
    IF i > Len(SyllabusSubjects) THEN <<>>
    ELSE LET subject == SyllabusSubjects[i]
             names == NEET_SYLLABUS[subject]
         IN  [idx \in 1 .. Len(names) |->
                 [subject |-> subject, chapter_name |-> names[idx], chapter_order |-> idx]]
             \o SyllabusEntries(i + 1)

\* Mutant: the first subject of the syllabus is skipped.
initialize_later_subjects(uid) ==
    LET entries == SyllabusEntries(2)
        first == NextId(DOMAIN chapters)
        ids == first .. first + Len(entries) - 1
    IN  [id \in DOMAIN chapters \cup ids |->
            IF id \in DOMAIN chapters THEN chapters[id]
            ELSE LET e == entries[id - first + 1]
                 IN  ChapterRow(uid, e.subject, e.chapter_name, e.chapter_order)]

\* initialize_user_chapters (app.py 95-106): the table after the inserts.
initialize_user_chapters(uid) ==
    LET entries == SyllabusEntries(1)
        first == NextId(DOMAIN chapters)
        ids == first .. first + Len(entries) - 1
    IN  [id \in DOMAIN chapters \cup ids |->
            IF id \in DOMAIN chapters THEN chapters[id]
            ELSE LET e == entries[id - first + 1]
                 IN  ChapterRow(uid, e.subject, e.chapter_name, e.chapter_order)]

\* Mutant: the account is created already approved.
NewUserActive(name) == UserRow(name, TRUE, FALSE)

\* register, lines 142-148: User(username=..., is_active=False); is_admin
\* takes the column default.
NewUser(name) == UserRow(name, FALSE, FALSE)

\* register (app.py 135-160)
Register(client, valid, name) ==
    IF IsAuthenticated(client)
    THEN Refused        \* 302 to the dashboard
    ELSE IF ~valid
    THEN Refused        \* 200, the form again
    ELSE IF UserByName(name) # Anonymous
    THEN Refused        \* users.username is unique: IntegrityError at commit, 500
    ELSE LET uid == NextId(DOMAIN users)
         IN  /\ users' = [u \in DOMAIN users \cup {uid} |->
                            IF u = uid THEN NewUser(name) ELSE users[u]]
             /\ chapters' = initialize_user_chapters(uid)
             /\ Commit
             /\ UNCHANGED <<revision_logs, study_logs, admin_logs, syllabus_chapters, sessions,
                            pomodoro_sessions, test_scores>>

\* login (app.py 161-198).  The redirects after login_user (to
\* change_password, to the dashboard) differ in no table and no cookie.
Login(client, valid, name, password_ok) ==
    IF IsAuthenticated(client)
    THEN Refused        \* 302 to the dashboard
    ELSE IF ~valid
    THEN Refused        \* 200, the form again
    ELSE LET uid == UserByName(name)
         IN  IF uid = Anonymous \/ ~password_ok
             THEN Refused       \* 302, invalid username or password
             ELSE IF ~users[uid].is_active /\ ~users[uid].is_admin
             THEN Refused       \* 302, pending approval
             ELSE /\ sessions' = LoggedIn(client, uid)
                  /\ Commit
                  /\ UNCHANGED dbVars

\* logout (app.py 201-207)
Logout(client) ==
    IF ~IsAuthenticated(client)
    THEN Refused        \* 302 to login
    ELSE /\ sessions' = sessions \ {client}
         /\ Commit
         /\ UNCHANGED dbVars

\* admin_login (app.py 624-646)
AdminLogin(client, valid, name, password_ok) ==
    IF IsAuthenticated(client) /\ users[client].is_admin
    THEN Refused        \* 302 to the admin dashboard
    ELSE IF ~valid
    THEN Refused        \* 200, the form again
    ELSE LET uid == UserByName(name)
         IN  IF uid = Anonymous \/ ~password_ok
             THEN Refused       \* 302, invalid credentials
             ELSE IF ~users[uid].is_admin
             THEN Refused       \* 302, not an admin
             ELSE /\ sessions' = LoggedIn(client, uid)
                  /\ Commit
                  /\ UNCHANGED dbVars

\* The JSON bodies of update_chapter: the empty object, one flag with either
\* value (what a checkbox sends), and all four flags with one value.
ChapterBodies ==
    {<<>>} \cup {f :> v : f \in FlagNames, v \in BOOLEAN}
           \cup {[f \in FlagNames |-> v] : v \in BOOLEAN}

\* Mutant: a flag the body does not name is cleared.
FlagAfterOrCleared(row, body, flag) == IF flag \in DOMAIN body THEN body[flag] ELSE FALSE

\* if '<flag>' in data: chapter.<flag> = data['<flag>']
FlagAfter(row, body, flag) == IF flag \in DOMAIN body THEN body[flag] ELSE row[flag]

\* Mutant: the counter grows by two.
BumpRevisionTwice(row, t) ==
    [row EXCEPT !.revision_count = @ + 2, !.last_revised_date = t]

\* chapter.revision_count += 1; chapter.last_revised_date = datetime.utcnow()
BumpRevision(row, t) ==
    [row EXCEPT !.revision_count = @ + 1, !.last_revised_date = t]

\* Mutant: the ownership test always passes.
OwnsAnyChapter(client, cid) == TRUE

\* chapter.user_id == current_user.id
OwnsChapter(client, cid) == chapters[cid].user_id = CurrentUser(client)

\* Mutant: clearing the revised flag also resets the revision fields.
ChapterAfterUpdateResetting(row, body, t) ==
    LET flagged == [row EXCEPT !.ncert_read = FlagAfter(row, body, "ncert_read"),
                               !.lecture_watched = FlagAfter(row, body, "lecture_watched"),
                               !.questions_solved = FlagAfter(row, body, "questions_solved"),
                               !.revised = FlagAfter(row, body, "revised")]
        counted == IF "revised" \in DOMAIN body
                   THEN IF body["revised"]
                        THEN BumpRevision(flagged, t)
                        ELSE [flagged EXCEPT !.revision_count = 0,
                                             !.last_revised_date = NoDate]
                   ELSE flagged
    IN  update_completion_status(counted)

\* update_chapter, lines 286-299: the row after the body is applied.
ChapterAfterUpdate(row, body, t) ==
    LET flagged == [row EXCEPT !.ncert_read = FlagAfter(row, body, "ncert_read"),
                               !.lecture_watched = FlagAfter(row, body, "lecture_watched"),
                               !.questions_solved = FlagAfter(row, body, "questions_solved"),
                               !.revised = FlagAfter(row, body, "revised")]
        counted == IF "revised" \in DOMAIN body /\ body["revised"]
                   THEN BumpRevision(flagged, t)
                   ELSE flagged
    IN  update_completion_status(counted)

\* update_chapter (app.py 275-307): the status code of the answer.  json_ok is
\* false for a body that is not a JSON object: the first `in data` test raises
\* and the request is rolled back.
UpdateChapterStatus(client, cid, json_ok) ==
    IF ~IsAuthenticated(client) THEN 302            \* @login_required
    ELSE IF cid \notin DOMAIN chapters THEN 404     \* get_or_404
    ELSE IF ~OwnsChapter(client, cid) THEN 403      \* Unauthorized
    ELSE IF ~json_ok THEN 500
    ELSE 200

\* update_chapter (app.py 275-307)
UpdateChapter(client, cid, json_ok, body) ==
    IF UpdateChapterStatus(client, cid, json_ok) # 200
    THEN Refused
    ELSE /\ chapters' = [chapters EXCEPT ![cid] = ChapterAfterUpdate(@, body, now)]
         /\ Commit
         /\ UNCHANGED <<users, revision_logs, study_logs, admin_logs, syllabus_chapters,
                        sessions,
                        pomodoro_sessions, test_scores>>

\* Mutant: every entry is numbered 1.
RevisionLogRowFirst(uid, cid, number, t) ==
    [user_id |-> uid, chapter_progress_id |-> cid, revision_number |-> 1,
     revision_date |-> t]

\* A revision_logs row (models.py 173-178).
RevisionLogRow(uid, cid, number, t) ==
    [user_id |-> uid, chapter_progress_id |-> cid, revision_number |-> number,
     revision_date |-> t]

\* Mutant: the revision is counted and the revised flag is left as it was.
ChapterAfterRevisionUnflagged(row, t) == update_completion_status(BumpRevision(row, t))

\* log_revision, lines 530-533: the row after the revision is counted.
ChapterAfterRevision(row, t) ==
    update_completion_status([BumpRevision(row, t) EXCEPT !.revised = TRUE])

\* log_revision (app.py 519-551): the status code of the answer.  json_ok is
\* false for a body that is not a JSON object or whose confidence_level is not
\* a number: data.get or int() raises after the row was changed in the
\* session, and the request is rolled back.
LogRevisionStatus(client, cid, json_ok) ==
    IF ~IsAuthenticated(client) THEN 302            \* @login_required
    ELSE IF cid \notin DOMAIN chapters THEN 404     \* get_or_404
    ELSE IF ~OwnsChapter(client, cid) THEN 403      \* Unauthorized
    ELSE IF ~json_ok THEN 500
    ELSE 200

\* log_revision (app.py 519-551)
LogRevision(client, cid, json_ok) ==
    IF LogRevisionStatus(client, cid, json_ok) # 200
    THEN Refused
    ELSE LET row == ChapterAfterRevision(chapters[cid], now)
         IN  /\ chapters' = [chapters EXCEPT ![cid] = row]
             /\ revision_logs' =
                    Append(revision_logs,
                           RevisionLogRow(CurrentUser(client), cid, row.revision_count, now))
             /\ Commit
             /\ UNCHANGED <<users, study_logs, admin_logs, syllabus_chapters, sessions,
                            pomodoro_sessions, test_scores>>

\* study_log (app.py 350-392), the POST of a form.
StudyLog(client, valid, d, minutes) ==
    IF ~IsAuthenticated(client)
    THEN Refused        \* 302 to login
    ELSE IF ~valid
    THEN Refused        \* 200, the form again
    ELSE /\ Cardinality(study_logs) < MaxStudyLogs
         /\ study_logs' = study_logs \cup
                {StudyLogRow(NextId({l.id : l \in study_logs}), CurrentUser(client), d, minutes)}
         /\ Commit
         /\ UNCHANGED <<users, chapters, revision_logs, admin_logs, syllabus_chapters,
                        sessions,
                        pomodoro_sessions, test_scores>>

(***************************************************************************)
(* Admin handlers (app.py 686-850, 923-1026).                              *)
(***************************************************************************)
MaxSyllabusRows == 1    \* rows of the SyllabusChapter table
MaxAdminLogs == 2       \* rows of admin_logs

\* NULL in a nullable foreign-key column.
NullId == 0

\* An admin_logs row (models.py 213-216).
AdminLogRow(admin, action, target) ==
    [admin_id |-> admin, action_type |-> action, target_user_id |-> target]

\* Mutant: the is_admin test is forgotten.
IsLoggedInRequest(client) == IsAuthenticated(client)

\* @login_required followed by `if not current_user.is_admin`
IsAdminRequest(client) == IsAuthenticated(client) /\ users[client].is_admin

\* approve_user (app.py 686-709)
ApproveUser(client, target) ==
    IF ~IsAdminRequest(client)
    THEN Refused        \* 302
    ELSE IF target \notin DOMAIN users
    THEN Refused        \* 404
    ELSE /\ Len(admin_logs) < MaxAdminLogs
         /\ users' = [users EXCEPT ![target].is_active = TRUE]
         /\ admin_logs' = Append(admin_logs, AdminLogRow(CurrentUser(client), "approve", target))
         /\ Commit
         /\ UNCHANGED <<chapters, revision_logs, study_logs, syllabus_chapters, sessions,
                        pomodoro_sessions, test_scores>>

\* Mutant: the rows of the user stay in the table.
WithUser(table, target) == table

\* cascade='all, delete-orphan' on a relationship of User (models.py 34-38):
\* the table without the rows of the deleted user.
WithoutUser(table, target) == {r \in table : r.user_id # target}

\* db.session.delete(user) at commit.  The cascades of models.py 34-38 and 93
\* delete the user's chapter_progress, study_logs, test_scores,
\* pomodoro_sessions and revision_logs rows and
\* the revision_logs rows of the deleted chapters.  The backrefs of models.py
\* 220-221 carry no delete cascade, so the stored admin_logs rows that name
\* the user have the foreign key set to NULL: target_user_id is nullable,
\* admin_id is not, and a stored row with the user as admin_id makes the
\* commit raise IntegrityError.  The row added by this request is inserted as
\* it was built.
RemoveUser(action, client, target) ==
    IF ~IsAdminRequest(client)
    THEN Refused        \* 302
    ELSE IF target \notin DOMAIN users
    THEN Refused        \* 404
    ELSE IF \E i \in 1 .. Len(admin_logs) : admin_logs[i].admin_id = target
    THEN Refused        \* 500 after the rollback
    ELSE LET gone == {c \in DOMAIN chapters : chapters[c].user_id = target}
             Kept(l) == l.user_id # target /\ l.chapter_progress_id \notin gone
             Nullified(l) == IF l.target_user_id = target
                             THEN [l EXCEPT !.target_user_id = NullId]
                             ELSE l
         IN  /\ Len(admin_logs) < MaxAdminLogs
             /\ users' = Restrict(users, DOMAIN users \ {target})
             /\ chapters' = Restrict(chapters, DOMAIN chapters \ gone)
             /\ revision_logs' = SelectSeq(revision_logs, Kept)
             /\ study_logs' = WithoutUser(study_logs, target)
             /\ pomodoro_sessions' = WithoutUser(pomodoro_sessions, target)
             /\ test_scores' = WithoutUser(test_scores, target)
             /\ admin_logs' = Append([i \in 1 .. Len(admin_logs) |-> Nullified(admin_logs[i])],
                                     AdminLogRow(CurrentUser(client), action, target))
             /\ Commit
             /\ UNCHANGED <<syllabus_chapters, sessions>>

\* reject_user (app.py 711-732)
RejectUser(client, target) == RemoveUser("reject", client, target)

\* delete_user (app.py 829-850)
DeleteUser(client, target) == RemoveUser("delete", client, target)

\* view_user_progress (app.py 748-805)
ViewUserProgress(client, target) ==
    IF ~IsAdminRequest(client)
    THEN Refused        \* 302
    ELSE IF target \notin DOMAIN users
    THEN Refused        \* 404
    ELSE IF users[target].is_admin
    THEN Refused        \* 302, an admin has no progress page
    ELSE /\ Len(admin_logs) < MaxAdminLogs
         /\ admin_logs' = Append(admin_logs, AdminLogRow(CurrentUser(client), "view", target))
         /\ Commit
         /\ UNCHANGED <<users, chapters, revision_logs, study_logs, syllabus_chapters,
                        sessions,
                        pomodoro_sessions, test_scores>>

\* Mutant: the handler removes the account, as delete_user does.
DeactivateUserRemoving(client, target) == RemoveUser("deactivate", client, target)

\* deactivate_user (app.py 807-827)
DeactivateUser(client, target) ==
    IF ~IsAdminRequest(client)
    THEN Refused        \* 302
    ELSE IF target \notin DOMAIN users
    THEN Refused        \* 404
    ELSE /\ Len(admin_logs) < MaxAdminLogs
         /\ users' = [users EXCEPT ![target].is_active = FALSE]
         /\ admin_logs' = Append(admin_logs, AdminLogRow(CurrentUser(client), "deactivate", target))
         /\ Commit
         /\ UNCHANGED <<chapters, revision_logs, study_logs, syllabus_chapters, sessions,
                        pomodoro_sessions, test_scores>>

\* A SyllabusChapter row, with the columns add_chapter and edit_chapter set
\* (app.py 933-940, 976-981) and the other handlers read.
SyllabusRow(subject, name, order) ==
    [subject |-> subject, chapter_name |-> name, chapter_order |-> order]

\* The chapter forms an admin submits.
ChapterForms ==
    {SyllabusRow("Physics", "Vectors", 2), SyllabusRow("Physics", "Optics", 3)}

\* add_chapter (app.py 923-961): the row, then one chapter_progress row for
\* every active non-admin user.
AddChapter(client, valid, form) ==
    IF ~IsAdminRequest(client)
    THEN Refused        \* 302
    ELSE IF ~valid
    THEN Refused        \* 200, the form again
    ELSE LET sid == NextId(DOMAIN syllabus_chapters)
             targets == {u \in DOMAIN users : ~users[u].is_admin /\ users[u].is_active}
             first == NextId(DOMAIN chapters)
             \* the users in the order of the query, each with the next id
             Rank(u) == Cardinality({v \in targets : v < u})
             ids == first .. first + Cardinality(targets) - 1
             UserAt(id) == CHOOSE u \in targets : Rank(u) = id - first
         IN  /\ Cardinality(DOMAIN syllabus_chapters) < MaxSyllabusRows
             /\ syllabus_chapters' =
                    [x \in DOMAIN syllabus_chapters \cup {sid} |->
                        IF x = sid THEN form ELSE syllabus_chapters[x]]
             /\ chapters' =
                    [id \in DOMAIN chapters \cup ids |->
                        IF id \in DOMAIN chapters THEN chapters[id]
                        ELSE ChapterRow(UserAt(id), form.subject, form.chapter_name,
                                        form.chapter_order)]
             /\ Commit
             /\ UNCHANGED <<users, revision_logs, study_logs, admin_logs, sessions,
                            pomodoro_sessions, test_scores>>

\* edit_chapter (app.py 963-1004): the row, then the bulk UPDATE of the
\* chapter_progress rows with the new subject and the old name.
EditChapter(client, sid, valid, form) ==
    IF ~IsAdminRequest(client)
    THEN Refused        \* 302
    ELSE IF sid \notin DOMAIN syllabus_chapters
    THEN Refused        \* 404
    ELSE IF ~valid
    THEN Refused        \* 200, the form again
    ELSE LET old_name == syllabus_chapters[sid].chapter_name
             Hit(row) == row.subject = form.subject /\ row.chapter_name = old_name
         IN  /\ syllabus_chapters' = [syllabus_chapters EXCEPT ![sid] = form]
             /\ chapters' =
                    [id \in DOMAIN chapters |->
                        IF Hit(chapters[id])
                        THEN [chapters[id] EXCEPT !.chapter_name = form.chapter_name,
                                                  !.chapter_order = form.chapter_order]
                        ELSE chapters[id]]
             /\ Commit
             /\ UNCHANGED <<users, revision_logs, study_logs, admin_logs, sessions,
                            pomodoro_sessions, test_scores>>

\* delete_chapter (app.py 1006-1026): the bulk DELETE of the chapter_progress
\* rows of every user, then the row.  A bulk DELETE runs no ORM cascade.
DeleteChapter(client, sid) ==
    IF ~IsAdminRequest(client)
    THEN Refused        \* 302
    ELSE IF sid \notin DOMAIN syllabus_chapters
    THEN Refused        \* 404
    ELSE LET row == syllabus_chapters[sid]
             gone == {c \in DOMAIN chapters :
                        /\ chapters[c].subject = row.subject
                        /\ chapters[c].chapter_name = row.chapter_name}
         IN  /\ chapters' = Restrict(chapters, DOMAIN chapters \ gone)
             /\ syllabus_chapters' = Restrict(syllabus_chapters, DOMAIN syllabus_chapters \ {sid})
             /\ Commit
             /\ UNCHANGED <<users, revision_logs, study_logs, admin_logs, sessions,
                            pomodoro_sessions, test_scores>>

(***************************************************************************)
(* The requests.  A handler that returns before it reads its form, body or *)
(* URL id answers every value of it alike, so one value stands for all of  *)
(* them there; where the handler reads the input every value is tried.     *)
(***************************************************************************)

\* The browsers: one per login cookie, and one without a cookie.
Clients == sessions \cup {Anonymous}

\* (valid, username, password_ok) of a login form, seen by a handler that
\* does (read) or does not get past its first redirect.
CredentialForms(read) ==
    {<<FALSE, ADMIN_USERNAME, FALSE>>}
        \cup (IF read THEN {<<TRUE, n, p>> : n \in Usernames, p \in BOOLEAN} ELSE {})

\* (valid, username) of a registration form.
RegistrationForms(read) ==
    {<<FALSE, ADMIN_USERNAME>>} \cup (IF read THEN {<<TRUE, n>> : n \in Usernames} ELSE {})

\* (json_ok, body) of an update_chapter request.
BodiesRead(client, cid) ==
    {<<FALSE, <<>> >>}
        \cup (IF UpdateChapterStatus(client, cid, TRUE) = 200
              THEN {<<TRUE, b>> : b \in ChapterBodies}
              ELSE {})

\* json_ok of a log_revision request.
RevisionBodiesRead(client, cid) ==
    IF LogRevisionStatus(client, cid, TRUE) = 200 THEN BOOLEAN ELSE {FALSE}

\* (valid, date, minutes) of a study-log form.
StudyForms(read) ==
    {<<FALSE, TodayBase, 30>>}
        \cup (IF read THEN {<<TRUE, d, m>> : d \in StudyFormDates, m \in StudyFormMinutes}
              ELSE {})

\* The ids in the URL of an admin request.
AdminUrlIds(client, table) == IF IsAdminRequest(client) THEN UrlIds(table) ELSE {NullId}

\* (valid, form) of a chapter form.
ChapterFormsRead(read) ==
    {<<FALSE, SyllabusRow("Physics", "Vectors", 2)>>}
        \cup (IF read THEN {<<TRUE, f>> : f \in ChapterForms} ELSE {})

Next ==
    \/ \E c \in Clients : \E f \in RegistrationForms(~IsAuthenticated(c)) :
            Register(c, f[1], f[2])
    \/ \E c \in Clients : \E f \in CredentialForms(~IsAuthenticated(c)) :
            Login(c, f[1], f[2], f[3])
    \/ \E c \in Clients : \E f \in CredentialForms(~IsAdminRequest(c)) :
            AdminLogin(c, f[1], f[2], f[3])
    \/ \E c \in Clients : Logout(c)
    \/ \E c \in Clients, id \in UrlIds(chapters) : \E r \in BodiesRead(c, id) :
            UpdateChapter(c, id, r[1], r[2])
    \/ \E c \in Clients, id \in UrlIds(chapters) : \E j \in RevisionBodiesRead(c, id) :
            LogRevision(c, id, j)
    \/ \E c \in Clients : \E f \in StudyForms(IsAuthenticated(c)) :
            StudyLog(c, f[1], f[2], f[3])
    \/ \E c \in Clients : \E u \in AdminUrlIds(c, users) : ApproveUser(c, u)
    \/ \E c \in Clients : \E u \in AdminUrlIds(c, users) : RejectUser(c, u)
    \/ \E c \in Clients : \E u \in AdminUrlIds(c, users) : DeactivateUser(c, u)
    \/ \E c \in Clients : \E u \in AdminUrlIds(c, users) : DeleteUser(c, u)
    \/ \E c \in Clients : \E u \in AdminUrlIds(c, users) : ViewUserProgress(c, u)
    \/ \E c \in Clients : \E f \in ChapterFormsRead(IsAdminRequest(c)) :
            AddChapter(c, f[1], f[2])
    \/ \E c \in Clients : \E id \in AdminUrlIds(c, syllabus_chapters) :
            \E f \in ChapterFormsRead(IsAdminRequest(c) /\ id \in DOMAIN syllabus_chapters) :
                EditChapter(c, id, f[1], f[2])
    \/ \E c \in Clients : \E id \in AdminUrlIds(c, syllabus_chapters) : DeleteChapter(c, id)

Spec == Init /\ [][Next]_vars

(***************************************************************************)
(* Properties of the application.                                          *)
(***************************************************************************)

\* C1: in every state reached by register, update_chapter and log_revision
\* (and the other requests), every chapter-progress record has
\* is_completed = (ncert_read AND lecture_watched AND questions_solved AND
\* revised).
C1_CompletionInvariant ==
    \A id \in DOMAIN chapters : chapters[id].is_completed <=> AllFlags(chapters[id])

\* C1 witness: registration has created the records, update_chapter has
\* completed one of them, log_revision has revised a record, and a record
\* with some flag set is not completed.
C1_Witness ==
    /\ \E id \in DOMAIN chapters : chapters[id].is_completed
    /\ \E id \in DOMAIN chapters : chapters[id].revised /\ ~chapters[id].is_completed
    /\ Len(revision_logs) > 0

\* The step is update_chapter answered 200 for the record id.
UpdateChapterStep(id) ==
    \E c \in Clients : \E b \in ChapterBodies :
        UpdateChapterStatus(c, id, TRUE) = 200 /\ UpdateChapter(c, id, TRUE, b)

\* C7: when update_chapter changes a record's revised flag from false to
\* true, the record's revision_count grows by exactly 1 and its
\* last_revised_date becomes the time of the request.
C7_RevisionCountedOnFirstRevised ==
    [][\A id \in DOMAIN chapters :
            (/\ ~chapters[id].revised
             /\ id \in DOMAIN chapters'
             /\ chapters'[id].revised
             /\ UpdateChapterStep(id))
                => /\ chapters'[id].revision_count = chapters[id].revision_count + 1
                   /\ chapters'[id].last_revised_date = now]_vars

\* C7 witness: a record revised through update_chapter alone (no revision
\* log exists) carries count 1 and a timestamp.
C7_Witness ==
    /\ Len(revision_logs) = 0
    /\ \E id \in DOMAIN chapters :
            /\ chapters[id].revised
            /\ chapters[id].revision_count = 1
            /\ chapters[id].last_revised_date # NoDate

\* C8: update_chapter changes revision_count and last_revised_date only when
\* revised goes from false to true; revised=true for a record already
\* revised, revised=false, or no revised key leave both unchanged.
C8_RevisionCountedOnlyOnFirstRevised ==
    [][\A id \in DOMAIN chapters :
            (/\ UpdateChapterStep(id)
             /\ ~(~chapters[id].revised /\ chapters'[id].revised))
                => /\ chapters'[id].revision_count = chapters[id].revision_count
                   /\ chapters'[id].last_revised_date = chapters[id].last_revised_date]_vars

\* The client is a logged-in user and the record belongs to somebody else.
ForeignChapter(c, id) ==
    /\ IsAuthenticated(c)
    /\ id \in DOMAIN chapters
    /\ chapters[id].user_id # CurrentUser(c)

\* C9: update_chapter and log_revision for a record of another user are
\* answered 403 and leave that record, its revision logs and every other
\* record unchanged: no step of either handler changes a table or a cookie.
C9_ForeignChapterRefused ==
    \A c \in Clients : \A id \in DOMAIN chapters :
        ForeignChapter(c, id) =>
            \A j \in BOOLEAN :
                /\ UpdateChapterStatus(c, id, j) = 403
                /\ LogRevisionStatus(c, id, j) = 403
                /\ \A b \in ChapterBodies :
                        ~ENABLED (UpdateChapter(c, id, j, b) /\ ~UNCHANGED <<dbVars, sessions>>)
                /\ ~ENABLED (LogRevision(c, id, j) /\ ~UNCHANGED <<dbVars, sessions>>)

\* C9 witness: a logged-in user who is not an admin and has records of their
\* own names a record of another user, and both requests are the 403 case.
C9_Witness ==
    \E c \in Clients : \E id \in DOMAIN chapters :
        /\ ForeignChapter(c, id)
        /\ ~users[c].is_admin
        /\ \E own \in DOMAIN chapters : chapters[own].user_id = c
        /\ UpdateChapterStatus(c, id, TRUE) = 403
        /\ LogRevisionStatus(c, id, TRUE) = 403

\* The records of chapter_progress and study_logs that do not belong to the
\* users in gone are in the next state as they are in this one.
RecordsKept(gone) ==
    /\ \A id \in DOMAIN chapters :
            chapters[id].user_id \notin gone
                => id \in DOMAIN chapters' /\ chapters'[id] = chapters[id]
    /\ \A l \in study_logs : l.user_id \notin gone => l \in study_logs'

C11_LoginNeedsApproval ==
    [][/\ \A u \in DOMAIN users' \ DOMAIN users : ~users'[u].is_active
       /\ \A u \in sessions' \ sessions :
                (u \in DOMAIN users /\ ~users[u].is_admin) => users[u].is_active
       /\ \A u \in DOMAIN users \cap DOMAIN users' :
                (~users[u].is_active /\ users'[u].is_active)
                    => \E c \in Clients : IsAdminRequest(c) /\ ApproveUser(c, u)]_vars

\* C11 witness: a registered user who is not an admin has logged in, and the
\* admin log holds the approval of that account.
C11_Witness ==
    \E u \in sessions :
        /\ u \in DOMAIN users
        /\ ~users[u].is_admin
        /\ users[u].is_active
        /\ \E i \in 1 .. Len(admin_logs) :
                admin_logs[i].action_type = "approve" /\ admin_logs[i].target_user_id = u

(***************************************************************************)
(* Password management (app.py 1199-1313) and the specification of the     *)
(* account life cycle, SpecAccounts: registration, login, approval,        *)
(* removal, password handlers, and the two requests by which a user        *)
(* changes study records.                                                  *)
(***************************************************************************)

\* Mutant: no account is taken for an admin's.
IsNoAdminAccount(target) == FALSE

\* if user.is_admin (app.py 1209, 1258)
IsAdminAccount(target) == users[target].is_admin

\* admin_reset_user_password (app.py 1199-1247), the POST of the form;
\* force is form.force_password_change.data.
AdminResetUserPassword(client, target, valid, force) ==
    IF ~IsAdminRequest(client)
    THEN Refused        \* 302 to the dashboard
    ELSE IF target \notin DOMAIN users
    THEN Refused        \* 404
    ELSE IF IsAdminAccount(target)
    THEN Refused        \* 302, cannot reset an admin
    ELSE IF ~valid
    THEN Refused        \* 200, the form again
    ELSE /\ Len(admin_logs) < MaxAdminLogs
         /\ users' = [users EXCEPT ![target].password = "reset",
                                   ![target].must_change_password = force]
         /\ admin_logs' =
                Append(admin_logs, AdminLogRow(CurrentUser(client), "password_reset", target))
         /\ Commit
         /\ UNCHANGED <<chapters, revision_logs, study_logs, syllabus_chapters, sessions,
                        pomodoro_sessions, test_scores>>

\* admin_generate_temp_password, lines 1270-1273
TempPasswordRow(row) == [row EXCEPT !.password = "temp", !.must_change_password = TRUE]

\* admin_generate_temp_password (app.py 1249-1291)
AdminGenerateTempPassword(client, target) ==
    IF ~IsAdminRequest(client)
    THEN Refused        \* 403
    ELSE IF target \notin DOMAIN users
    THEN Refused        \* 404
    ELSE IF IsAdminAccount(target)
    THEN Refused        \* 403, cannot reset an admin
    ELSE /\ Len(admin_logs) < MaxAdminLogs
         /\ users' = [users EXCEPT ![target] = TempPasswordRow(@)]
         /\ admin_logs' =
                Append(admin_logs, AdminLogRow(CurrentUser(client), "temp_password", target))
         /\ Commit
         /\ UNCHANGED <<chapters, revision_logs, study_logs, syllabus_chapters, sessions,
                        pomodoro_sessions, test_scores>>

\* change_password (app.py 1297-1313), the POST of the form.
ChangePassword(client, valid) ==
    IF ~IsAuthenticated(client)
    THEN Refused        \* 302 to login
    ELSE IF ~valid
    THEN Refused        \* 200, the form again
    ELSE /\ users' = [users EXCEPT ![CurrentUser(client)].password = "changed",
                                   ![CurrentUser(client)].must_change_password = FALSE]
         /\ Commit
         /\ UNCHANGED <<chapters, revision_logs, study_logs, admin_logs, syllabus_chapters,
                        sessions,
                        pomodoro_sessions, test_scores>>

\* dashboard (app.py 213-273): the status code of the answer.
DashboardStatus(client) ==
    IF ~IsAuthenticated(client) THEN 302        \* @login_required
    ELSE IF ~users[client].is_active /\ ~users[client].is_admin THEN 302
    ELSE 200

\* (valid, force_password_change) of a password form.
PasswordForms(read) ==
    {<<FALSE, FALSE>>} \cup (IF read THEN {<<TRUE, f>> : f \in BOOLEAN} ELSE {})

NextAccounts ==
    \/ \E c \in Clients : \E f \in RegistrationForms(~IsAuthenticated(c)) :
            Register(c, f[1], f[2])
    \/ \E c \in Clients : \E f \in CredentialForms(~IsAuthenticated(c)) :
            Login(c, f[1], f[2], f[3])
    \/ \E c \in Clients : \E f \in CredentialForms(~IsAdminRequest(c)) :
            AdminLogin(c, f[1], f[2], f[3])
    \/ \E c \in Clients : Logout(c)
    \/ \E c \in Clients : \E u \in AdminUrlIds(c, users) : ApproveUser(c, u)
    \/ \E c \in Clients : \E u \in AdminUrlIds(c, users) : RejectUser(c, u)
    \/ \E c \in Clients : \E u \in AdminUrlIds(c, users) : DeactivateUser(c, u)
    \/ \E c \in Clients : \E u \in AdminUrlIds(c, users) : DeleteUser(c, u)
    \/ \E c \in Clients : \E u \in AdminUrlIds(c, users) :
            \E f \in PasswordForms(IsAdminRequest(c)) :
                AdminResetUserPassword(c, u, f[1], f[2])
    \/ \E c \in Clients : \E u \in AdminUrlIds(c, users) : AdminGenerateTempPassword(c, u)
    \/ \E c \in Clients : \E v \in BOOLEAN : ChangePassword(c, v)
    \/ \E c \in Clients, id \in UrlIds(chapters) : \E r \in BodiesRead(c, id) :
            UpdateChapter(c, id, r[1], r[2])
    \/ \E c \in Clients : \E f \in StudyForms(IsAuthenticated(c)) :
            StudyLog(c, f[1], f[2], f[3])

SpecAccounts == Init /\ [][NextAccounts]_vars

\* The step changes a table or a login cookie.
StateChanged == ~UNCHANGED <<dbVars, sessions>>

\* C12: a logged-in user whose is_admin is false changes nothing through
\* approve_user, reject_user, deactivate_user, delete_user,
\* admin_reset_user_password or admin_generate_temp_password: no step of
\* these handlers for such a requester changes a user account, a record or
\* the admin log.
C12_NonAdminChangesNothing ==
    \A c \in Clients :
        (IsAuthenticated(c) /\ ~users[c].is_admin) =>
            \A u \in UrlIds(users) :
                /\ ~ENABLED (ApproveUser(c, u) /\ StateChanged)
                /\ ~ENABLED (RejectUser(c, u) /\ StateChanged)
                /\ ~ENABLED (DeactivateUser(c, u) /\ StateChanged)
                /\ ~ENABLED (DeleteUser(c, u) /\ StateChanged)
                /\ \A v \in BOOLEAN : \A f \in BOOLEAN :
                        ~ENABLED (AdminResetUserPassword(c, u, v, f) /\ StateChanged)
                /\ ~ENABLED (AdminGenerateTempPassword(c, u) /\ StateChanged)

\* C12 witness: a non-admin user is logged in while another non-admin account
\* exists that the admin actions could be aimed at, and clock and admin log
\* leave room for an admin's action.
C12_Witness ==
    \E c \in Clients : \E u \in DOMAIN users :
        /\ IsAuthenticated(c)
        /\ ~users[c].is_admin
        /\ u # c
        /\ ~users[u].is_admin
        /\ now < MaxTime
        /\ Len(admin_logs) < MaxAdminLogs


(***************************************************************************)
(* calculate_study_streak called again after further sessions were logged  *)
(* on days that already had one (app.py 108-124, 359-368).                 *)
(***************************************************************************)
MaxCalls == 2           \* SpecStreakDup: calls of calculate_study_streak
MaxSameDayLogs == 2     \* SpecStreakDup: sessions added on days that already have one
SameDayMinutes == {30, 45}

InitStreakDup ==
    /\ today = TodayBase
    /\ \E offs \in SmallOffsets, k \in {0, OtherRun} :
            study_logs = StreakTable(today, offs, k)
    /\ streak_user = StreakUser
    /\ streak = 0
    /\ check_date = today
    /\ queries = 0
    /\ returned = <<>>
    /\ pc = "loop"
    /\ users = <<>>
    /\ sessions = {}
    /\ chapters = <<>>
    /\ revision_logs = <<>>
    /\ admin_logs = <<>>
    /\ syllabus_chapters = <<>>
    /\ pomodoro_sessions = {}
    /\ test_scores = {}
    /\ inflight = <<>>
    /\ now = 0

\* The next call of calculate_study_streak: today, streak = 0, check_date = today.
StreakCall ==
    /\ pc = "done"
    /\ Len(returned) < MaxCalls
    /\ streak' = 0
    /\ check_date' = today
    /\ queries' = 0
    /\ pc' = "loop"
    /\ UNCHANGED <<today, streak_user, returned>>
    /\ UNCHANGED appVars

\* study_log by the user whose streak is computed, between two calls, with a
\* form whose date is a day the user already has a session on.
StudyLogSameDay(d, minutes) ==
    /\ pc = "done"
    /\ d \in StudyDates(streak_user)
    /\ Cardinality({l \in study_logs : l.user_id = streak_user})
            < Cardinality(StudyDates(streak_user)) + MaxSameDayLogs
    /\ study_logs' = study_logs \cup
            {StudyLogRow(NextId({l.id : l \in study_logs}), streak_user, d, minutes)}
    /\ UNCHANGED <<users, sessions, chapters, revision_logs, admin_logs,
                   syllabus_chapters, pomodoro_sessions, test_scores, inflight, now, pc>>
    /\ UNCHANGED streakVars

NextStreakDup ==
    \/ StreakIteration
    \/ StreakReturn
    \/ StreakCall
    \/ \E d \in StudyDates(streak_user), m \in SameDayMinutes : StudyLogSameDay(d, m)

SpecStreakDup == InitStreakDup /\ [][NextStreakDup]_vars

\* The user has more than one session on some day.
HasSameDayLogs(uid) ==
    Cardinality({l \in study_logs : l.user_id = uid}) > Cardinality(StudyDates(uid))

\* C13: the streak depends only on which days have a session: logging further
\* sessions on a day that already has one leaves the value the next call
\* returns equal to the value returned before.
C13_SameDayLogsKeepStreak ==
    /\ \A i, j \in DOMAIN returned : returned[i] = returned[j]
    /\ (pc = "return" /\ returned # <<>>) => streak = returned[1]

\* C13 witness: a second call is about to return a streak of 2 or more over a
\* log that gained same-day sessions after the first call returned.
C13_Witness ==
    /\ pc = "return"
    /\ Len(returned) = 1
    /\ HasSameDayLogs(streak_user)
    /\ \E l \in study_logs : l.user_id = streak_user /\ l.duration_minutes = 45
    /\ streak >= 2


(***************************************************************************)
(* The streak over a pre-loaded set of dates (spec 4.2), against           *)
(* calculate_study_streak (app.py 108-124).                                *)
(***************************************************************************)

\* compute_streak(study_dates, today): the number of days counted by the
\* set-membership walk from t back, which stops at the first day not in D and
\* after STREAK_LIMIT iterations.
compute_streak(D, t) ==
    CHOOSE n \in 0 .. STREAK_LIMIT :
        /\ \A i \in 0 .. n - 1 : (t - i) \in D
        /\ n = STREAK_LIMIT \/ (t - n) \notin D

\* C14: for every study log and every today, calculate_study_streak returns
\* the value of compute_streak over the set of the user's distinct study dates.
C14_LoopEqualsSetWalk ==
    pc = "done" => streak = compute_streak(StudyDates(streak_user), today)


\* What log_revision by client c for record id has done in a step.
RevisionLogged(c, id) ==
    /\ id \in DOMAIN chapters'
    /\ chapters'[id].revision_count = chapters[id].revision_count + 1
    /\ chapters'[id].revised
    /\ chapters'[id].last_revised_date = now
    /\ chapters'[id].is_completed = AllFlags(chapters'[id])
    /\ Len(revision_logs') = Len(revision_logs) + 1
    /\ SubSeq(revision_logs', 1, Len(revision_logs)) = revision_logs
    /\ LET entry == revision_logs'[Len(revision_logs')]
       IN  /\ entry.revision_number = chapters'[id].revision_count
           /\ entry.user_id = CurrentUser(c)
           /\ entry.chapter_progress_id = id

\* C19: every log_revision by the owner of a record is answered 200 and adds
\* exactly 1 to its revision_count, sets revised, stamps last_revised_date,
\* re-derives is_completed and appends exactly one revision-log entry carrying
\* the new revision_count, the requester and the record.
C19_LogRevisionCounts ==
    \A c \in Clients : \A id \in DOMAIN chapters :
        (IsAuthenticated(c) /\ OwnsChapter(c, id)) =>
            /\ LogRevisionStatus(c, id, TRUE) = 200
            /\ ~ENABLED (LogRevision(c, id, TRUE) /\ ~RevisionLogged(c, id))

\* C19 witness: a record revised twice through log_revision, with the two
\* entries numbered 1 and 2.
C19_Witness ==
    \E id \in DOMAIN chapters :
        /\ chapters[id].revision_count = 2
        /\ chapters[id].revised
        /\ Len(revision_logs) = 2
        /\ revision_logs[1].chapter_progress_id = id /\ revision_logs[1].revision_number = 1
        /\ revision_logs[2].chapter_progress_id = id /\ revision_logs[2].revision_number = 2
        /\ revision_logs[2].user_id = chapters[id].user_id


\* The records of user u after a step.
RecordsOfAfter(u) == {id \in DOMAIN chapters' : chapters'[id].user_id = u}

\* After the step user u has exactly one record for each entry of the
\* syllabus, numbered from 1 within its subject, and every record is blank.
HasBlankSyllabus(u) ==
    /\ \A subject \in DOMAIN NEET_SYLLABUS :
        \A idx \in 1 .. Len(NEET_SYLLABUS[subject]) :
            Cardinality({id \in RecordsOfAfter(u) :
                            /\ chapters'[id].subject = subject
                            /\ chapters'[id].chapter_name = NEET_SYLLABUS[subject][idx]
                            /\ chapters'[id].chapter_order = idx}) = 1
    /\ \A id \in RecordsOfAfter(u) :
        LET row == chapters'[id]
        IN  /\ row.subject \in DOMAIN NEET_SYLLABUS
            /\ row.chapter_order \in 1 .. Len(NEET_SYLLABUS[row.subject])
            /\ row.chapter_name = NEET_SYLLABUS[row.subject][row.chapter_order]
            /\ ~row.ncert_read /\ ~row.lecture_watched
            /\ ~row.questions_solved /\ ~row.revised
            /\ ~row.is_completed
            /\ row.revision_count = 0
    /\ Cardinality(RecordsOfAfter(u)) =
            Cardinality({<<e.subject, e.chapter_order>> :
                            e \in {SyllabusEntries(1)[i] : i \in 1 .. Len(SyllabusEntries(1))}})

ForcedLogin(u) ==
    /\ u \in sessions' \ sessions
    /\ u \in DOMAIN users
    /\ users[u].must_change_password

\* After the login of a user whose flag is set the dashboard is not served to
\* that user.
DashboardClosedAfterForcedLogin ==
    \A u \in DOMAIN users : ForcedLogin(u) => (DashboardStatus(u) # 200)'

\* No step changes a study record of a logged-in user whose flag is set.
RecordsClosedWhileForced ==
    \A u \in DOMAIN users :
        (IsAuthenticated(u) /\ users[u].must_change_password) =>
            /\ \A id \in DOMAIN chapters :
                    chapters[id].user_id = u =>
                        (id \in DOMAIN chapters' /\ chapters'[id] = chapters[id])
            /\ {l \in study_logs' : l.user_id = u} = {l \in study_logs : l.user_id = u}

\* A step of change_password by a logged-in user with a valid form clears the
\* user's flag.
ChangePasswordClearsFlag ==
    \A c \in Clients :
        (IsAuthenticated(c) /\ users' # users /\ ChangePassword(c, TRUE))
            => ~users'[c].must_change_password

\* A step of admin_generate_temp_password that changes the account sets its
\* flag.
TempPasswordSetsFlag ==
    \A c \in Clients : \A t \in DOMAIN users :
        (users' # users /\ AdminGenerateTempPassword(c, t)) => users'[t].must_change_password

\* C17: a user whose must_change_password is set cannot, from login until a
\* successful change_password, reach the dashboard or change a study record;
\* change_password clears the flag and admin_generate_temp_password sets it.
C17_MustChangePasswordFirst ==
    [][/\ DashboardClosedAfterForcedLogin
       /\ RecordsClosedWhileForced
       /\ ChangePasswordClearsFlag
       /\ TempPasswordSetsFlag]_vars

\* The parts of C17 about the two handlers that write the flag.
FlagWrittenAsStated == [][ChangePasswordClearsFlag /\ TempPasswordSetsFlag]_vars

\* The part of C17 about the dashboard alone.
ForcedLoginClosesDashboard == [][DashboardClosedAfterForcedLogin]_vars

\* The part of C17 about the study records alone.
ForcedUserChangesNoRecord == [][RecordsClosedWhileForced]_vars


(***************************************************************************)
(* The focus timer (app.py 563-592, models.py 189-200).                    *)
(***************************************************************************)
MaxDays == 1            \* SpecPomodoro: days that pass after TodayBase

\* session.total_focus_time += 25
FOCUS_MINUTES == 25

\* A pomodoro_sessions row.
PomodoroRow(id, uid, d, completed, minutes) ==
    [id |-> id, user_id |-> uid, session_date |-> d,
     sessions_completed |-> completed, total_focus_time |-> minutes]

\* PomodoroSession.query.filter_by(user_id=..., session_date=today)
PomodoroRowsOf(uid, d) ==
    {r \in pomodoro_sessions : r.user_id = uid /\ r.session_date = d}

\* .first(): the row of the lowest id.
FirstPomodoroRow(uid, d) ==
    CHOOSE r \in PomodoroRowsOf(uid, d) : \A o \in PomodoroRowsOf(uid, d) : r.id <= o.id

\* Mutant: the focus time is counted and the session is not.
PomodoroUncounted(row) ==
    [row EXCEPT !.total_focus_time = @ + FOCUS_MINUTES]

\* pomodoro_complete, lines 583-584
PomodoroCounted(row) ==
    [row EXCEPT !.sessions_completed = @ + 1, !.total_focus_time = @ + FOCUS_MINUTES]

\* pomodoro_complete (app.py 563-592)
PomodoroComplete(client) ==
    IF ~IsAuthenticated(client)
    THEN Refused        \* 302 to login
    ELSE LET uid == CurrentUser(client)
             found == PomodoroRowsOf(uid, today) # {}
             session == IF found THEN FirstPomodoroRow(uid, today)
                        ELSE PomodoroRow(NextId({r.id : r \in pomodoro_sessions}),
                                         uid, today, 0, 0)
         IN  /\ pomodoro_sessions' =
                    (pomodoro_sessions \ {session}) \cup {PomodoroCounted(session)}
             /\ Commit
             /\ UNCHANGED <<users, chapters, revision_logs, study_logs, admin_logs,
                            syllabus_chapters, sessions, test_scores>>

\* Midnight: date.today() moves to the next day.
NextDay ==
    /\ today < TodayBase + MaxDays
    /\ today' = today + 1
    /\ UNCHANGED appVars
    /\ UNCHANGED <<streak_user, streak, check_date, queries, returned, pc>>

NextPomodoro ==
    \/ \E c \in Clients : \E f \in RegistrationForms(~IsAuthenticated(c)) :
            Register(c, f[1], f[2])
    \/ \E c \in Clients : \E f \in CredentialForms(~IsAuthenticated(c)) :
            Login(c, f[1], f[2], f[3])
    \/ \E c \in Clients : Logout(c)
    \/ \E c \in Clients : \E u \in AdminUrlIds(c, users) : ApproveUser(c, u)
    \/ \E c \in Clients : \E u \in AdminUrlIds(c, users) : DeactivateUser(c, u)
    \/ \E c \in Clients : \E u \in AdminUrlIds(c, users) : DeleteUser(c, u)
    \/ \E c \in Clients : PomodoroComplete(c)
    \/ NextDay

SpecPomodoro == Init /\ [][NextPomodoro]_vars

\* The sessions_completed and total_focus_time of user uid for day d in a
\* table: those of the day's row, 0 and 0 when there is none.
PomodoroTotals(table, uid, d) ==
    LET rows == {r \in table : r.user_id = uid /\ r.session_date = d}
    IN  IF rows = {} THEN <<0, 0>>
        ELSE LET r == CHOOSE x \in rows : TRUE
             IN  <<r.sessions_completed, r.total_focus_time>>

\* The step has counted one session of FOCUS_MINUTES for user uid on the
\* current day and has left one row for that day.
OnePomodoroCounted(uid) ==
    /\ Cardinality({r \in pomodoro_sessions' : r.user_id = uid /\ r.session_date = today}) = 1
    /\ PomodoroTotals(pomodoro_sessions', uid, today)[1]
            = PomodoroTotals(pomodoro_sessions, uid, today)[1] + 1
    /\ PomodoroTotals(pomodoro_sessions', uid, today)[2]
            = PomodoroTotals(pomodoro_sessions, uid, today)[2] + 25

\* C18: each pomodoro_complete of a logged-in user adds exactly 1 to the
\* user's sessions_completed and exactly 25 to total_focus_time of the current
\* day, starting from 0 when the day has no record; every record satisfies
\* total_focus_time = 25 * sessions_completed, and no two records share a
\* user and a day.
C18_PomodoroCounts ==
    /\ \A c \in Clients :
            IsAuthenticated(c) =>
                ~ENABLED (PomodoroComplete(c) /\ ~OnePomodoroCounted(CurrentUser(c)))
    /\ \A r \in pomodoro_sessions : r.total_focus_time = 25 * r.sessions_completed
    /\ \A r, o \in pomodoro_sessions :
            (r.user_id = o.user_id /\ r.session_date = o.session_date) => r = o

\* C18 witness: a user holds a record of two sessions for one day and a
\* record of one session for the next.
C18_Witness ==
    \E r, o \in pomodoro_sessions :
        /\ r.user_id = o.user_id
        /\ o.session_date = r.session_date + 1
        /\ r.sessions_completed = 2 /\ r.total_focus_time = 50
        /\ o.sessions_completed = 1 /\ o.total_focus_time = 25


(***************************************************************************)
(* update_chapter and log_revision as two steps each, the load of the      *)
(* record and the commit, with other requests in between (app.py 275-307,  *)
(* 519-551).                                                               *)
(***************************************************************************)
MaxRequests == 2        \* SpecInterleaved: requests for the record
RequestIds == 1 .. MaxRequests

\* The records a user can hold before the requests: any flags, is_completed
\* derived from them, and a revision counted for a record that is revised.
InterleavedRows ==
    {row \in
        {[ChapterRow(StreakUser, "Physics", "Vectors", 1)
            EXCEPT !.ncert_read = f[1], !.lecture_watched = f[2],
                   !.questions_solved = f[3], !.revised = f[4],
                   !.is_completed = f[1] /\ f[2] /\ f[3] /\ f[4],
                   !.revision_count = n,
                   !.last_revised_date = IF n = 0 THEN NoDate ELSE 0] :
            f \in [1 .. 4 -> BOOLEAN], n \in {0, 1}} :
        row.revised => row.revision_count > 0}

InitInterleaved ==
    /\ users = (1 :> UserRow(ADMIN_USERNAME, TRUE, TRUE))
                    @@ (StreakUser :> UserRow("asha", TRUE, FALSE))
    /\ sessions = {StreakUser}
    /\ chapters \in {(1 :> row) : row \in InterleavedRows}
    /\ revision_logs = <<>>
    /\ study_logs = {}
    /\ admin_logs = <<>>
    /\ syllabus_chapters = <<>>
    /\ pomodoro_sessions = {}
    /\ test_scores = {}
    /\ inflight = <<>>
    /\ now = 1
    /\ today = TodayBase
    /\ streak_user = Anonymous
    /\ streak = 0
    /\ check_date = TodayBase
    /\ queries = 0
    /\ returned = <<>>
    /\ pc = "app"

\* ChapterProgress.query.get_or_404(chapter_id) and the ownership test of a
\* request that gets past both: the session holds the row as it was read.
LoadRecord(r, client, kind, cid, body) ==
    /\ r \notin DOMAIN inflight
    /\ IsAuthenticated(client)
    /\ cid \in DOMAIN chapters
    /\ OwnsChapter(client, cid)
    /\ inflight' = inflight @@
            (r :> [kind |-> kind, client |-> CurrentUser(client), chapter_id |-> cid,
                   body |-> body, loaded |-> chapters[cid], pc |-> "loaded"])
    /\ UNCHANGED <<users, sessions, chapters, revision_logs, study_logs, admin_logs,
                   syllabus_chapters, pomodoro_sessions, test_scores, now>>
    /\ UNCHANGED <<today, streak_user, streak, check_date, queries, returned, pc>>

\* The assignments of the handler, made on the row the session holds.
RowInSession(req, t) ==
    IF req.kind = "update_chapter"
    THEN ChapterAfterUpdate(req.loaded, req.body, t)
    ELSE ChapterAfterRevision(req.loaded, t)

\* db.session.commit(): the UPDATE sets the columns whose value in the session
\* differs from the value loaded, and leaves the other columns of the stored
\* row as they are.
RowAfterFlush(stored, loaded, changed) ==
    [col \in DOMAIN stored |->
        IF changed[col] # loaded[col] THEN changed[col] ELSE stored[col]]

\* The commit of a request that has loaded the record.
CommitRecord(r) ==
    /\ r \in DOMAIN inflight
    /\ inflight[r].pc = "loaded"
    /\ now < MaxTime
    /\ LET req == inflight[r]
           changed == RowInSession(req, now)
       IN  /\ chapters' = [chapters EXCEPT
                    ![req.chapter_id] = RowAfterFlush(@, req.loaded, changed)]
           /\ revision_logs' =
                    IF req.kind = "log_revision"
                    THEN Append(revision_logs,
                                RevisionLogRow(req.client, req.chapter_id,
                                               changed.revision_count, now))
                    ELSE revision_logs
    /\ inflight' = [inflight EXCEPT ![r].pc = "committed"]
    /\ now' = now + 1
    /\ UNCHANGED <<users, sessions, study_logs, admin_logs, syllabus_chapters,
                   pomodoro_sessions, test_scores>>
    /\ UNCHANGED <<today, streak_user, streak, check_date, queries, returned, pc>>

NextInterleaved ==
    \/ \E r \in RequestIds, c \in Clients, id \in DOMAIN chapters, b \in ChapterBodies :
            LoadRecord(r, c, "update_chapter", id, b)
    \/ \E r \in RequestIds, c \in Clients, id \in DOMAIN chapters :
            LoadRecord(r, c, "log_revision", id, <<>>)
    \/ \E r \in RequestIds : CommitRecord(r)

SpecInterleaved == InitInterleaved /\ [][NextInterleaved]_vars

\* C15: is_completed equals the conjunction of the four flags in every
\* committed state, also when two update_chapter requests, or an
\* update_chapter and a log_revision, for one record each load the record
\* before the other commits.
C15_CompletionInvariantInterleaved ==
    \A id \in DOMAIN chapters :
        chapters[id].is_completed =
            (/\ chapters[id].ncert_read /\ chapters[id].lecture_watched
             /\ chapters[id].questions_solved /\ chapters[id].revised)

\* The requests taken one at a time: a request loads the record only when
\* every earlier request has committed.
NextSerial ==
    \/ /\ \A r \in DOMAIN inflight : inflight[r].pc = "committed"
       /\ \/ \E r \in RequestIds, c \in Clients, id \in DOMAIN chapters, b \in ChapterBodies :
                LoadRecord(r, c, "update_chapter", id, b)
          \/ \E r \in RequestIds, c \in Clients, id \in DOMAIN chapters :
                LoadRecord(r, c, "log_revision", id, <<>>)
    \/ \E r \in RequestIds : CommitRecord(r)

SpecSerial == InitInterleaved /\ [][NextSerial]_vars


\* What an update_chapter request with body b for record id has left alone
\* in a step: the flags b does not name, the revision fields when b does not
\* name revised, the identifying columns, every other record and every other
\* table.
UpdateChapterFrame(id, b) ==
    /\ DOMAIN chapters' = DOMAIN chapters
    /\ \A other \in DOMAIN chapters \ {id} : chapters'[other] = chapters[other]
    /\ \A f \in FlagNames \ DOMAIN b : chapters'[id][f] = chapters[id][f]
    /\ \A f \in FlagNames \cap DOMAIN b : chapters'[id][f] = b[f]
    /\ "revised" \notin DOMAIN b =>
            /\ chapters'[id].revision_count = chapters[id].revision_count
            /\ chapters'[id].last_revised_date = chapters[id].last_revised_date
    /\ chapters'[id].user_id = chapters[id].user_id
    /\ chapters'[id].subject = chapters[id].subject
    /\ chapters'[id].chapter_name = chapters[id].chapter_name
    /\ chapters'[id].chapter_order = chapters[id].chapter_order
    /\ UNCHANGED <<users, sessions, revision_logs, study_logs, admin_logs,
                   syllabus_chapters, pomodoro_sessions, test_scores>>

\* C21: an update_chapter request changes, of the addressed record, only the
\* flags its body names, the derived is_completed and the revision fields
\* tied to revised; the flags absent from the body keep their values, and no
\* other record of the user or of another user changes.
C21_UpdateChapterFrame ==
    \A c \in Clients : \A id \in DOMAIN chapters : \A b \in ChapterBodies :
        UpdateChapterStatus(c, id, TRUE) = 200 =>
            ~ENABLED (UpdateChapter(c, id, TRUE, b) /\ ~UpdateChapterFrame(id, b))

\* C21 witness: a record holds two flags set and one not set, and another
\* record of the same user is blank.
C21_Witness ==
    \E id, other \in DOMAIN chapters :
        /\ id # other
        /\ chapters[id].user_id = chapters[other].user_id
        /\ chapters[id].ncert_read /\ chapters[id].lecture_watched
        /\ ~chapters[id].questions_solved
        /\ ~chapters[other].ncert_read /\ ~chapters[other].lecture_watched
        /\ ~chapters[other].questions_solved /\ ~chapters[other].revised


(***************************************************************************)
(* The records of a user and the removal of the user (app.py 423-450,      *)
(* 711-732, 829-850, models.py 34-38).                                     *)
(***************************************************************************)
MaxTestScores == 2      \* rows of test_scores

\* A test_scores row.
TestScoreRow(id, uid, d, score, marks) ==
    [id |-> id, user_id |-> uid, test_date |-> d, total_score |-> score,
     total_marks |-> marks]

\* (valid, total_score, total_marks) of a test-score form.
TestForms(read) ==
    {<<FALSE, 0, 0>>} \cup (IF read THEN {<<TRUE, 540, 720>>} ELSE {})

\* test_tracker (app.py 423-452), the POST of a form.
TestTracker(client, valid, score, marks) ==
    IF ~IsAuthenticated(client)
    THEN Refused        \* 302 to login
    ELSE IF ~valid
    THEN Refused        \* 200, the form again
    ELSE /\ Cardinality(test_scores) < MaxTestScores
         /\ test_scores' = test_scores \cup
                {TestScoreRow(NextId({r.id : r \in test_scores}), CurrentUser(client),
                              today, score, marks)}
         /\ Commit
         /\ UNCHANGED <<users, chapters, revision_logs, study_logs, admin_logs,
                        syllabus_chapters, sessions, pomodoro_sessions>>

NextRecords ==
    \/ \E c \in Clients : \E f \in RegistrationForms(~IsAuthenticated(c)) :
            Register(c, f[1], f[2])
    \/ \E c \in Clients : \E f \in CredentialForms(~IsAuthenticated(c)) :
            Login(c, f[1], f[2], f[3])
    \/ \E c \in Clients : Logout(c)
    \/ \E c \in Clients : \E u \in AdminUrlIds(c, users) : ApproveUser(c, u)
    \/ \E c \in Clients : \E u \in AdminUrlIds(c, users) : RejectUser(c, u)
    \/ \E c \in Clients : \E u \in AdminUrlIds(c, users) : DeleteUser(c, u)
    \/ \E c \in Clients, id \in UrlIds(chapters) : \E j \in RevisionBodiesRead(c, id) :
            LogRevision(c, id, j)
    \/ \E c \in Clients : \E f \in StudyForms(IsAuthenticated(c)) :
            StudyLog(c, f[1], f[2], f[3])
    \/ \E c \in Clients : \E f \in TestForms(IsAuthenticated(c)) :
            TestTracker(c, f[1], f[2], f[3])
    \/ \E c \in Clients : PomodoroComplete(c)

SpecRecords == Init /\ [][NextRecords]_vars

\* The user ids the rows of the five record tables carry.
RecordOwners ==
    {chapters[id].user_id : id \in DOMAIN chapters}
        \cup {l.user_id : l \in study_logs}
        \cup {r.user_id : r \in test_scores}
        \cup {revision_logs[i].user_id : i \in 1 .. Len(revision_logs)}
        \cup {r.user_id : r \in pomodoro_sessions}

\* C22: every chapter-progress, study-log, test-score, revision-log and
\* pomodoro record refers to an existing user; in particular none carries
\* the id of a user removed by delete_user or reject_user.
C22_RecordsHaveOwners == RecordOwners \subseteq DOMAIN users

\* C22 witness: a user was removed by delete_user or reject_user, the
\* chapter records registration gave that user are gone, and the records of
\* a user registered later are kept.
C22_Witness ==
    /\ \E i \in 1 .. Len(admin_logs) :
            /\ admin_logs[i].action_type \in {"delete", "reject"}
            /\ admin_logs[i].target_user_id \notin DOMAIN users
    /\ 1 \notin DOMAIN chapters
    /\ \E id \in DOMAIN chapters : id > 2 /\ chapters[id].user_id \in DOMAIN users


\* The step has left the account of user t and the admin log as they were.
AccountAndLogKept(t) ==
    /\ t \in DOMAIN users'
    /\ users'[t] = users[t]
    /\ admin_logs' = admin_logs

\* The step has given user t the password pw and has appended one entry of
\* the kind to the admin log, by admin c about user t.
PasswordReplaced(c, t, pw, kind) ==
    /\ t \in DOMAIN users'
    /\ users'[t].password = pw
    /\ Len(admin_logs') = Len(admin_logs) + 1
    /\ SubSeq(admin_logs', 1, Len(admin_logs)) = admin_logs
    /\ admin_logs'[Len(admin_logs')] = AdminLogRow(CurrentUser(c), kind, t)

SmallChapters == 3      \* SpecProgress: records per subject of the small tables
LargeChapters == 2001   \* SpecProgress: Physics records of the largest tables

\* The table of user StreakUser with np Physics records, the first cp of
\* them completed, and nc Chemistry records, the first cc completed.
ProgressTable(np, cp, nc, cc) ==
    [id \in 1 .. np + nc |->
        LET subject == IF id <= np THEN "Physics" ELSE "Chemistry"
            order == IF id <= np THEN id ELSE id - np
            done == IF id <= np THEN id <= cp ELSE id - np <= cc
        IN  [ChapterRow(StreakUser, subject, "Vectors", order)
                EXCEPT !.ncert_read = done, !.lecture_watched = done,
                       !.questions_solved = done, !.revised = done,
                       !.is_completed = done,
                       !.revision_count = IF done THEN 1 ELSE 0,
                       !.last_revised_date = IF done THEN 0 ELSE NoDate]]

SmallProgressTables ==
    {ProgressTable(np, cp, nc, cc) :
        np \in 0 .. SmallChapters, cp \in 0 .. SmallChapters,
        nc \in 0 .. SmallChapters, cc \in 0 .. SmallChapters}

LargeProgressTables ==
    {ProgressTable(np, cp, nc, 0) :
        np \in {LargeChapters - 2, LargeChapters},
        cp \in {0, 1, LargeChapters - 3, LargeChapters - 2, LargeChapters - 1, LargeChapters},
        nc \in {0, 1}}

InitProgress ==
    /\ chapters \in SmallProgressTables \cup LargeProgressTables
    /\ pc = "start"
    /\ users = (StreakUser :> UserRow("asha", TRUE, FALSE))
    /\ sessions = {}
    /\ revision_logs = <<>>
    /\ study_logs = {}
    /\ admin_logs = <<>>
    /\ syllabus_chapters = <<>>
    /\ pomodoro_sessions = {}
    /\ test_scores = {}
    /\ inflight = <<>>
    /\ now = 1
    /\ today = TodayBase
    /\ streak_user = StreakUser
    /\ streak = 0
    /\ check_date = TodayBase
    /\ queries = 0
    /\ returned = <<>>

\* round((completed / total) * 100, 1) in tenths: the nearest number of
\* tenths, and either neighbour when the quotient lies halfway (the binary
\* float decides).
RoundedPercentage(completed, total) ==
    LET q == (1000 * completed) \div total
        r == (1000 * completed) % total
    IN  IF 2 * r < total THEN {q}
        ELSE IF 2 * r > total THEN {q + 1}
        ELSE {q, q + 1}

\* self.chapter_progress
ChapterProgressOf(uid) == {id \in DOMAIN chapters : chapters[id].user_id = uid}

\* The completed records among rows.
CompletedAmong(rows) == {id \in rows : chapters[id].is_completed}

\* Mutant: the records that are not completed are counted.
PendingPercentage(rows) ==
    IF rows = {} THEN {0}
    ELSE RoundedPercentage(Cardinality(rows \ CompletedAmong(rows)), Cardinality(rows))

\* The body shared by the two methods: 0 for no records, else the rounded
\* share of completed records.
ProgressPercentage(rows) ==
    IF rows = {} THEN {0}
    ELSE RoundedPercentage(Cardinality(CompletedAmong(rows)), Cardinality(rows))

\* User.get_progress_percentage
get_progress_percentage(uid) == ProgressPercentage(ChapterProgressOf(uid))

\* User.get_subject_progress
get_subject_progress(uid, subject) ==
    ProgressPercentage({id \in ChapterProgressOf(uid) : chapters[id].subject = subject})

\* dashboard, lines 233-235: the overall, Physics and Chemistry progress.
ComputeProgress ==
    /\ pc = "start"
    /\ \E overall \in get_progress_percentage(streak_user),
          physics \in get_subject_progress(streak_user, "Physics"),
          chemistry \in get_subject_progress(streak_user, "Chemistry") :
            returned' = <<overall, physics, chemistry>>
    /\ pc' = "done"
    /\ UNCHANGED appVars
    /\ UNCHANGED <<today, streak_user, streak, check_date, queries>>

NextProgress == ComputeProgress

SpecProgress == InitProgress /\ [][NextProgress]_vars

\* The value is what the claim says of a progress over the rows.
ProgressAsStated(value, rows) ==
    IF rows = {} THEN value = 0
    ELSE /\ 0 <= value /\ value <= 1000
         /\ value = 1000 <=> CompletedAmong(rows) = rows
         /\ value = 0 <=> CompletedAmong(rows) = {}

\* The rows of a subject of the user whose progress is computed.
SubjectRows(subject) ==
    {id \in ChapterProgressOf(streak_user) : chapters[id].subject = subject}

NoRecordsNoProgress ==
    (pc = "done" /\ chapters = <<>>) => returned = <<0, 0, 0>>


(***************************************************************************)
(* Chapters needing revision: the dashboard's count and the revision       *)
(* page's list (app.py 249-254, 504-507).  The clock of the model counts   *)
(* days here; a page is requested at the time of the state or later.       *)
(***************************************************************************)

\* config.py 39 (and app.py 25)
REVISION_REMINDER_DAYS == 7

\* The times at which a page is requested: from the last commit until every
\* revision made so far is older than the reminder period.
RequestTimes == now..(MaxTime + REVISION_REMINDER_DAYS + 1)

\* datetime.utcnow() - timedelta(days=app.config['REVISION_REMINDER_DAYS'])
revision_threshold(t) == t - REVISION_REMINDER_DAYS

\* dashboard (app.py 250-254): the SQL filter.  A comparison with a NULL
\* last_revised_date is NULL, and the row is not counted.
DashboardNeedRevision(uid, t) ==
    Cardinality({id \in DOMAIN chapters :
                    /\ chapters[id].user_id = uid
                    /\ chapters[id].revised = TRUE
                    /\ chapters[id].last_revised_date # NoDate
                    /\ chapters[id].last_revised_date < revision_threshold(t)})

\* Mutant: the list keeps every record revised long ago, flagged or not.
RevisionListUnflagged(uid, t) ==
    {id \in DOMAIN chapters :
        /\ chapters[id].user_id = uid
        /\ chapters[id].last_revised_date # NoDate
        /\ chapters[id].last_revised_date < revision_threshold(t)}

\* revision (app.py 500-507): the records of the list comprehension over the
\* user's records; each record is listed once, so the list is as long as
\* this set is large.  `ch.last_revised_date and` guards the comparison with
\* None.
RevisionList(uid, t) ==
    {id \in DOMAIN chapters :
        /\ chapters[id].user_id = uid
        /\ chapters[id].revised
        /\ chapters[id].last_revised_date # NoDate
        /\ chapters[id].last_revised_date < revision_threshold(t)}

\* C25: in every reachable state a chapter record with revised = true has a
\* last_revised_date and revision_count >= 1, and for every user and request
\* time the dashboard's count of chapters needing revision equals the length
\* of the revision page's list.
C25_RevisedHasDateAndCount ==
    /\ \A id \in DOMAIN chapters :
            chapters[id].revised
                => /\ chapters[id].last_revised_date # NoDate
                   /\ chapters[id].revision_count >= 1
    /\ \A uid \in DOMAIN users : \A t \in RequestTimes :
            DashboardNeedRevision(uid, t) = Cardinality(RevisionList(uid, t))

\* C25 witness: at some request time a user has a record that needs revision
\* (counted by both pages) and a record revised too recently to be counted.
C25_Witness ==
    \E uid \in DOMAIN users : \E t \in RequestTimes :
        /\ DashboardNeedRevision(uid, t) >= 1
        /\ \E id \in DOMAIN chapters :
                /\ chapters[id].user_id = uid
                /\ chapters[id].revised
                /\ id \notin RevisionList(uid, t)


(***************************************************************************)
(* The revision counter under update_chapter and log_revision              *)
(* (app.py 292-298, 530-533).                                              *)
(***************************************************************************)

\* The record id is still stored after the step and its revision_count is
\* not lower than before.
RevisionCountKept(id) ==
    /\ id \in DOMAIN chapters'
    /\ chapters'[id].revision_count >= chapters[id].revision_count

\* What update_chapter with revised = false has done to record id in a step.
RevisedCleared(id) ==
    /\ ~chapters'[id].revised
    /\ chapters'[id].revision_count = chapters[id].revision_count
    /\ chapters'[id].last_revised_date = chapters[id].last_revised_date
    /\ ~chapters'[id].is_completed

\* C26: no update_chapter and no log_revision request lowers a record's
\* revision_count, so it never decreases across a sequence of them; an
\* update_chapter that clears revised leaves revision_count and
\* last_revised_date as they were and makes is_completed false.
C26_RevisionCountMonotonic ==
    \A c \in Clients : \A id \in DOMAIN chapters :
        /\ LogRevisionStatus(c, id, TRUE) = 200 =>
                ~ENABLED (LogRevision(c, id, TRUE) /\ ~RevisionCountKept(id))
        /\ \A b \in ChapterBodies :
                UpdateChapterStatus(c, id, TRUE) = 200 =>
                    /\ ~ENABLED (UpdateChapter(c, id, TRUE, b) /\ ~RevisionCountKept(id))
                    /\ ("revised" \in DOMAIN b /\ ~b["revised"]) =>
                            ~ENABLED (UpdateChapter(c, id, TRUE, b) /\ ~RevisedCleared(id))

\* C26 witness: a record that was completed and revised has had its revised
\* flag cleared: the other flags are set, the revision is still counted and
\* dated, and the record is not completed.
C26_Witness ==
    \E id \in DOMAIN chapters :
        /\ chapters[id].ncert_read /\ chapters[id].lecture_watched
        /\ chapters[id].questions_solved
        /\ ~chapters[id].revised
        /\ ~chapters[id].is_completed
        /\ chapters[id].revision_count >= 1
        /\ chapters[id].last_revised_date # NoDate


(***************************************************************************)
(* The revision log of a chapter record (app.py 535-545).                  *)
(***************************************************************************)

\* SpecRevisions: the number of update_chapter and log_revision requests served.
MaxRevisionRequests == 3

\* The clock before the first of them.
SetupTime == MaxTime - MaxRevisionRequests

\* Two approved users with their chapter records and no revision made yet;
\* one of them is logged in.  The clock stands where the registrations, the
\* approvals and the login have left it.
InitRevisions ==
    /\ users = (1 :> UserRow(ADMIN_USERNAME, TRUE, TRUE)
                @@ 2 :> UserRow("asha", TRUE, FALSE)
                @@ 3 :> UserRow("ravi", TRUE, FALSE))
    /\ sessions = {2}
    /\ chapters = (1 :> ChapterRow(2, "Physics", "Vectors", 1)
                   @@ 2 :> ChapterRow(2, "Chemistry", "Redox Reactions", 1)
                   @@ 3 :> ChapterRow(3, "Physics", "Vectors", 1)
                   @@ 4 :> ChapterRow(3, "Chemistry", "Redox Reactions", 1))
    /\ revision_logs = <<>>
    /\ study_logs = {}
    /\ admin_logs = <<>>
    /\ syllabus_chapters = <<>>
    /\ pomodoro_sessions = {}
    /\ test_scores = {}
    /\ inflight = <<>>
    /\ now = SetupTime
    /\ today = TodayBase
    /\ streak_user = Anonymous
    /\ streak = 0
    /\ check_date = TodayBase
    /\ queries = 0
    /\ returned = <<>>
    /\ pc = "app"

\* A sequential mix of update_chapter and log_revision requests.
NextRevisions ==
    \/ \E c \in Clients, id \in UrlIds(chapters) : \E r \in BodiesRead(c, id) :
            UpdateChapter(c, id, r[1], r[2])
    \/ \E c \in Clients, id \in UrlIds(chapters) : \E j \in RevisionBodiesRead(c, id) :
            LogRevision(c, id, j)

SpecRevisions == InitRevisions /\ [][NextRevisions]_vars

\* The positions, in creation order, of the revision-log entries of record id.
RevisionEntriesOf(id) ==
    {i \in 1..Len(revision_logs) : revision_logs[i].chapter_progress_id = id}

\* C27: for every chapter record the revision_number values of its
\* revision-log entries are strictly increasing in creation order (hence
\* pairwise distinct), and it has no more entries than its revision_count.
C27_RevisionNumbersIncrease ==
    \A id \in DOMAIN chapters :
        /\ \A i, j \in RevisionEntriesOf(id) :
                i < j => revision_logs[i].revision_number < revision_logs[j].revision_number
        /\ Cardinality(RevisionEntriesOf(id)) <= chapters[id].revision_count

\* C27 witness: a record revised once through update_chapter and twice
\* through log_revision: two entries, numbered 2 and 3, and revision_count 3.
C27_Witness ==
    \E id \in DOMAIN chapters :
        /\ chapters[id].revision_count = 3
        /\ Cardinality(RevisionEntriesOf(id)) = 2
        /\ \E i, j \in RevisionEntriesOf(id) :
                /\ i < j
                /\ revision_logs[i].revision_number = 2
                /\ revision_logs[j].revision_number = 3


(***************************************************************************)
(* The administrator accounts under the admin actions (app.py 688-850).    *)
(***************************************************************************)

\* The accounts that can act as administrator.
ActiveAdmins == {u \in DOMAIN users : users[u].is_admin /\ users[u].is_active}

\* C28: after any sequence of admin actions (approve, reject, deactivate,
\* delete user) at least one account with is_admin = true and
\* is_active = true exists: no action deletes or deactivates an administrator
\* account, the acting administrator's own included.
C28_ActiveAdminRemains == ActiveAdmins # {}

\* The administrator's row is stored and active, or it is gone altogether.
AdminRowActiveOrGone ==
    \A u \in DOMAIN users : users[u].is_admin => users[u].is_active

\* An administrator row is always stored.
AdminRowStored == \E u \in DOMAIN users : users[u].is_admin


(***************************************************************************)
(* pomodoro_complete as two steps, the query for the day's row and the     *)
(* commit, with another request of the user in between (app.py 563-592).   *)
(* The table has no unique constraint on (user_id, session_date)           *)
(* (models.py 189-200).                                                    *)
(***************************************************************************)
MaxSessions == 2        \* SpecPomodoroInterleaved: sessions counted before the requests

\* .first() has found no row.
NoRow == [id |-> NullId]

\* The pomodoro_sessions table before the requests: no row for the day, or
\* the row of a user with the sessions counted so far.
PomodoroTables ==
    {{}} \cup {{PomodoroRow(1, uid, TodayBase, n, FOCUS_MINUTES * n)} :
                    uid \in {StreakUser, OtherUser}, n \in 1 .. MaxSessions}

InitPomodoroInterleaved ==
    /\ users = (1 :> UserRow(ADMIN_USERNAME, TRUE, TRUE))
                    @@ (StreakUser :> UserRow("asha", TRUE, FALSE))
                    @@ (OtherUser :> UserRow("ravi", TRUE, FALSE))
    /\ sessions = {StreakUser, OtherUser}
    /\ chapters = <<>>
    /\ revision_logs = <<>>
    /\ study_logs = {}
    /\ admin_logs = <<>>
    /\ syllabus_chapters = <<>>
    /\ pomodoro_sessions \in PomodoroTables
    /\ test_scores = {}
    /\ inflight = <<>>
    /\ now = 1
    /\ today = TodayBase
    /\ streak_user = Anonymous
    /\ streak = 0
    /\ check_date = TodayBase
    /\ queries = 0
    /\ returned = <<>>
    /\ pc = "app"

\* pomodoro_complete, lines 567-572: date.today() and the query; the session
\* holds the row as it was read, or nothing.
LoadPomodoro(r, client) ==
    /\ r \notin DOMAIN inflight
    /\ IsAuthenticated(client)
    /\ LET uid == CurrentUser(client)
       IN  inflight' = inflight @@
                (r :> [kind |-> "pomodoro_complete", client |-> uid, day |-> today,
                       loaded |-> IF PomodoroRowsOf(uid, today) # {}
                                  THEN FirstPomodoroRow(uid, today)
                                  ELSE NoRow,
                       pc |-> "loaded"])
    /\ UNCHANGED <<users, sessions, chapters, revision_logs, study_logs, admin_logs,
                   syllabus_chapters, pomodoro_sessions, test_scores, now>>
    /\ UNCHANGED <<today, streak_user, streak, check_date, queries, returned, pc>>

\* pomodoro_complete, lines 574-586: the row is built when none was found,
\* the two counters are raised on the object the session holds, and the
\* commit writes them: an INSERT of the new row under the next free id, or an
\* UPDATE that sets the two columns of the stored row to the values computed
\* from the row as it was read.
CommitPomodoro(r) ==
    /\ r \in DOMAIN inflight
    /\ inflight[r].pc = "loaded"
    /\ now < MaxTime
    /\ LET req == inflight[r]
       IN  pomodoro_sessions' =
                IF req.loaded = NoRow
                THEN pomodoro_sessions \cup
                        {PomodoroCounted(
                            PomodoroRow(NextId({row.id : row \in pomodoro_sessions}),
                                        req.client, req.day, 0, 0))}
                ELSE LET changed == PomodoroCounted(req.loaded)
                     IN  {IF row.id = req.loaded.id
                          THEN RowAfterFlush(row, req.loaded, changed)
                          ELSE row : row \in pomodoro_sessions}
    /\ inflight' = [inflight EXCEPT ![r].pc = "committed"]
    /\ now' = now + 1
    /\ UNCHANGED <<users, sessions, chapters, revision_logs, study_logs, admin_logs,
                   syllabus_chapters, test_scores>>
    /\ UNCHANGED <<today, streak_user, streak, check_date, queries, returned, pc>>

NextPomodoroInterleaved ==
    \/ \E r \in RequestIds, c \in Clients : LoadPomodoro(r, c)
    \/ \E r \in RequestIds : CommitPomodoro(r)

SpecPomodoroInterleaved == InitPomodoroInterleaved /\ [][NextPomodoroInterleaved]_vars

\* The sessions_completed and total_focus_time a request has read.
CountsRead(req) ==
    IF req.loaded = NoRow THEN <<0, 0>>
    ELSE <<req.loaded.sessions_completed, req.loaded.total_focus_time>>

\* Requests a and b of one user for one day have each read the day's row
\* before the other committed: the same row, or none, was read by both.
\* Both have committed, and they are the user's only requests.
InterleavedPair(a, b) ==
    /\ a # b
    /\ inflight[a].pc = "committed" /\ inflight[b].pc = "committed"
    /\ inflight[a].client = inflight[b].client
    /\ inflight[a].day = inflight[b].day
    /\ inflight[a].loaded = inflight[b].loaded
    /\ \A o \in DOMAIN inflight \ {a, b} : inflight[o].client # inflight[a].client

\* C29: when two pomodoro_complete requests of a user on one day interleave,
\* each reading before the other commits, the final state holds exactly one
\* record for (user, day), with sessions_completed grown by 2 and
\* total_focus_time by 50.
C29_InterleavedPomodoroCounted ==
    \A a, b \in DOMAIN inflight :
        InterleavedPair(a, b) =>
            LET uid == inflight[a].client
                d == inflight[a].day
                rows == {row \in pomodoro_sessions : row.user_id = uid /\ row.session_date = d}
            IN  /\ Cardinality(rows) = 1
                /\ \A row \in rows :
                        /\ row.sessions_completed = CountsRead(inflight[a])[1] + 2
                        /\ row.total_focus_time = CountsRead(inflight[a])[2] + 50

\* Two interleaved requests that found no row leave two rows for the day.
NoDuplicatePomodoroRow ==
    \A row, o \in pomodoro_sessions :
        (row.user_id = o.user_id /\ row.session_date = o.session_date) => row = o

\* Two interleaved requests that found the day's row count one session.
NoLostPomodoro ==
    \A a, b \in DOMAIN inflight :
        (InterleavedPair(a, b) /\ inflight[a].loaded # NoRow) =>
            \E row \in pomodoro_sessions :
                /\ row.id = inflight[a].loaded.id
                /\ row.sessions_completed = inflight[a].loaded.sessions_completed + 2

\* Requests served one after the other are both counted in one row: the
\* second has read what the first committed.
SerialPomodoroCounted ==
    \A a, b \in DOMAIN inflight :
        (/\ a # b
         /\ inflight[a].pc = "committed" /\ inflight[b].pc = "committed"
         /\ inflight[a].client = inflight[b].client
         /\ inflight[b].loaded # NoRow
         /\ CountsRead(inflight[b])[1] = CountsRead(inflight[a])[1] + 1)
            => \E row \in pomodoro_sessions :
                    /\ row.user_id = inflight[a].client
                    /\ row.sessions_completed = CountsRead(inflight[a])[1] + 2
                    /\ row.total_focus_time = CountsRead(inflight[a])[2] + 50

=============================================================================
